---- MODULE Spec2Model ----
(***************************************************************************)
(* A model of slack_cli's API client (src/slack_cli/client.py): the        *)
(* Transport (SlackClient.call, SlackClient.call_raw) and the cursor       *)
(* following list scans (_paginate, conversations_list,                    *)
(* find_conversations_by_name, find_dm_by_user_id).                        *)
(*                                                                         *)
(* Strings the code parses or rewrites (an endpoint, an HTTP verb, a       *)
(* Retry-After header) are sequences of one-character strings, so that     *)
(* strip / upper / int are computed the way Python computes them.          *)
(* Durations are in tenths of a second, so that 0.4 s and 0.5 s are the    *)
(* integers 4 and 5.                                                       *)
(***************************************************************************)
EXTENDS Integers, Sequences, FiniteSets, TLC

VARIABLES
    \* ---- Transport: one invocation of call / call_raw
    pc,          \* "idle" | "loop" (inside the attempt loop) | "done"
    fn,          \* "call" | "call_raw" | "none"
    method,      \* call: the Slack method name (1st argument)
    endpoint,    \* call_raw: the endpoint argument, as typed
    http_method, \* call_raw: the http_method argument, as typed
    params,      \* the caller's params argument: [none, d]
    payload,     \* the local `payload` dict
    attempt,     \* the loop variable
    last_error,  \* the local `last_error` ("None" or the exception's name)
    requests,    \* every HTTP request issued, in order
    responses,   \* the outcome of every request, in order
    sleeps,      \* every time.sleep() duration, in order (tenths of a second)
    clock,       \* time slept so far (tenths of a second)
    result,      \* how the invocation ended
    \* ---- List scans: one scan
    s_pc,          \* "idle" | "scan" | "done"
    s_fn,          \* "_paginate" | "conversations_list" | "find_conversations_by_name" | "find_dm_by_user_id"
    max_pages,     \* the max_pages argument (-1 is Python's None)
    max_items,     \* conversations_list's max_items argument (-1 is None)
    cursor,        \* the local `cursor`
    seen_cursors,  \* the local `seen_cursors`
    page_count,    \* the local `page_count`
    collected,     \* `channels` / `matches` / the items consumed from _paginate
    sent_cursors,  \* the cursor parameter of every page request ("" = none), in order
    next_cursors,  \* the next_cursor of every page response ("" = empty or absent), in order
    conversation_cache, \* self._conversation_cache
    scan_args,     \* the other arguments: [name, types, user_id]
    served,        \* how many items the server has put in its responses
    pages,         \* the items of every page response, in order
    s_result,      \* how the scan ended: [kind, value]
    \* ---- One client: its other caches, and the operation it is running
    users_cache,   \* self._users_cache: [none, d]
    users_map_cache, \* self._users_map_cache: [none, d]
    conversation_snapshot_cache, \* self._conversation_snapshot_cache
    n_ops,         \* how many operations the client has been asked for
    r_pc,          \* "idle" | "channels" | "user" | "dms" | "done"
    r_fn,          \* the operation called
    r_target,      \* its target argument
    r_via,         \* how resolve_dm_id was entered: "" | "direct" | "at" | "fallback"
    r_text,        \* the text handed to the resolution now running
    r_user_id,     \* the user ID resolve_user_id returned to resolve_dm_id
    r_events,      \* page requests and inner resolutions of the operation, in order
    r_listing,     \* the pages served to the operation's channel scan
    r_dms,         \* the pages served to the operation's DM scan
    r_before,      \* the caches when the operation was called
    r_result,      \* how the operation ended
    r_raised,      \* the error self.call raised inside the operation: [exc, msg]
    users_scans,   \* every users.list scan of the client: [ok, users], in order
    srv_users,     \* the user directory of the server, as last served or changed
    srv_channels,  \* the conversations of the server, as last served or changed
    snapshots_returned, \* what every conversation_snapshot(id) that returned gave, by id
    r_calls,       \* the requests of the operation with what answered each, in order
    \* ---- One run of the program (app.py)
    a_pc,          \* "idle" | "command" (main returned, the command runs) | "done"
    a_argv,        \* sys.argv with the command Click dispatches: [tokens, command, help]
    a_env,         \* os.environ when run() is entered: [env_file, workspace, token, d_cookie]
    a_client,      \* whether AppContext.client is a SlackClient (FALSE: None)
    a_calls,       \* how many network calls the run has made
    a_result,      \* how the run ended: [exc, msg]
    \* ---- One application of a function of normalize.py or of a command
    p_fn,          \* the function applied ("none": not yet)
    p_in,          \* its argument
    p_out          \* what it returned

tvars == <<pc, fn, method, endpoint, http_method, params, payload, attempt,
           last_error, requests, responses, sleeps, clock, result>>
svars == <<s_pc, s_fn, max_pages, max_items, cursor, seen_cursors, page_count,
           collected, sent_cursors, next_cursors, conversation_cache, scan_args,
           served, pages, s_result>>
scanlocals == <<s_pc, s_fn, max_pages, max_items, cursor, seen_cursors,
                page_count, collected, sent_cursors, next_cursors, scan_args,
                served, pages, s_result>>
caches == <<users_cache, users_map_cache, conversation_snapshot_cache>>
rvars == <<n_ops, r_pc, r_fn, r_target, r_via, r_text, r_user_id, r_events,
           r_listing, r_dms, r_before, r_result, r_raised, users_scans, srv_users>>
snapvars == <<srv_channels, snapshots_returned, r_calls>>
cvars == <<caches, rvars, snapvars>>
appvars == <<a_pc, a_argv, a_env, a_client, a_calls, a_result>>
pvars == <<p_fn, p_in, p_out>>
hvars == <<appvars, pvars>>
vars == <<tvars, svars, cvars, hvars>>

Max(a, b) == IF a >= b THEN a ELSE b
Min(a, b) == IF a <= b THEN a ELSE b

(***************************************************************************)
(* Python string operations on character sequences.                        *)
(***************************************************************************)
Whitespace == {" "}

RECURSIVE LStripChars(_, _)
LStripChars(s, cs) ==
    IF s # <<>> /\ Head(s) \in cs THEN LStripChars(Tail(s), cs) ELSE s

RECURSIVE RStripChars(_, _)
RStripChars(s, cs) ==
    IF s # <<>> /\ s[Len(s)] \in cs
    THEN RStripChars(SubSeq(s, 1, Len(s) - 1), cs)
    ELSE s

Strip(s) == RStripChars(LStripChars(s, Whitespace), Whitespace)

StartsWith(s, p) == Len(s) >= Len(p) /\ SubSeq(s, 1, Len(p)) = p

UpperChar(c) ==
    CASE c = "g" -> "G" [] c = "e" -> "E" [] c = "t" -> "T"
      [] c = "p" -> "P" [] c = "o" -> "O" [] c = "s" -> "S"
      [] OTHER -> c

RECURSIVE Upper(_)
Upper(s) == IF s = <<>> THEN <<>> ELSE <<UpperChar(Head(s))>> \o Upper(Tail(s))

DigitChars == {"0", "1", "2", "3", "4", "5", "6", "7", "8", "9"}

DigitVal(c) ==
    CASE c = "0" -> 0 [] c = "1" -> 1 [] c = "2" -> 2 [] c = "3" -> 3
      [] c = "4" -> 4 [] c = "5" -> 5 [] c = "6" -> 6 [] c = "7" -> 7
      [] c = "8" -> 8 [] c = "9" -> 9

RECURSIVE DigitsValue(_, _)
DigitsValue(s, acc) ==
    IF s = <<>> THEN acc ELSE DigitsValue(Tail(s), 10 * acc + DigitVal(Head(s)))

\* Python's int(str): surrounding whitespace, an optional sign, decimal digits.
\* [ok |-> FALSE] stands for the ValueError int() raises.
PyInt(s) ==
    LET t == Strip(s)
        signed == t # <<>> /\ Head(t) \in {"+", "-"}
        digits == IF signed THEN Tail(t) ELSE t
    IN  IF digits # <<>> /\ \A i \in 1..Len(digits) : digits[i] \in DigitChars
        THEN [ok |-> TRUE,
              val |-> IF signed /\ Head(t) = "-"
                      THEN 0 - DigitsValue(digits, 0)
                      ELSE DigitsValue(digits, 0)]
        ELSE [ok |-> FALSE, val |-> 0]

(***************************************************************************)
(* Settings and dicts.                                                     *)
(***************************************************************************)
settings_token == "xoxc-configured"

\* https://w.slack.com/api : Settings.api_base for workspace "w"
api_base ==
    <<"h", "t", "t", "p", "s", ":", "/", "/", "w", ".", "s", "l", "a", "c", "k",
      ".", "c", "o", "m", "/", "a", "p", "i">>

EmptyDict == [k \in {} |-> ""]

\* d.get(k, default)
Get(d, k, default) == IF k \in DOMAIN d THEN d[k] ELSE default

\* Mutant: payload["token"] = ... instead of setdefault.
SetDefault_Overwrite(d, k, v) ==
    [x \in DOMAIN d \cup {k} |-> IF x = k THEN v ELSE d[x]]

SetDefault(d, k, v) == IF k \in DOMAIN d THEN d ELSE d @@ (k :> v)

\* dict(params or {})
DictOrEmpty(p) == IF p.none THEN EmptyDict ELSE p.d

(***************************************************************************)
(* SlackClient.api_url and the verb normalisation of call_raw.             *)
(***************************************************************************)
HttpPrefix == <<"h", "t", "t", "p", ":", "/", "/">>
HttpsPrefix == <<"h", "t", "t", "p", "s", ":", "/", "/">>
ApiSegment == <<"a", "p", "i", "/">>
GET == <<"G", "E", "T">>
POST == <<"P", "O", "S", "T">>

\* Mutant: the leading "api/" segment is kept.
api_url_KeepApiSegment(e) ==
    LET raw == Strip(e) IN
    IF raw = <<>> THEN [ok |-> FALSE, url |-> <<>>]
    ELSE IF StartsWith(raw, HttpPrefix) \/ StartsWith(raw, HttpsPrefix)
    THEN [ok |-> TRUE, url |-> raw]
    ELSE LET normalized == LStripChars(raw, {"/"})
         IN  IF normalized = <<>> THEN [ok |-> FALSE, url |-> <<>>]
             ELSE [ok |-> TRUE, url |-> api_base \o <<"/">> \o normalized]

\* [ok |-> FALSE] stands for SlackCLIError("API endpoint cannot be empty").
api_url(e) ==
    LET raw == Strip(e) IN
    IF raw = <<>> THEN [ok |-> FALSE, url |-> <<>>]
    ELSE IF StartsWith(raw, HttpPrefix) \/ StartsWith(raw, HttpsPrefix)
    THEN [ok |-> TRUE, url |-> raw]
    ELSE LET stripped == LStripChars(raw, {"/"})
             normalized == IF StartsWith(stripped, ApiSegment)
                           THEN SubSeq(stripped, Len(ApiSegment) + 1, Len(stripped))
                           ELSE stripped
         IN  IF normalized = <<>> THEN [ok |-> FALSE, url |-> <<>>]
             ELSE [ok |-> TRUE, url |-> api_base \o <<"/">> \o normalized]

\* http_method.upper().strip() or "POST"
NormalizedVerb(h) == LET m == Strip(Upper(h)) IN IF m = <<>> THEN POST ELSE m

(***************************************************************************)
(* What the server (or the network) can answer to one request.             *)
(***************************************************************************)
NetworkErrors == {"ConnectError", "ReadTimeout"}

\* Retry-After header values: 3, 0, -2, 12 and one that is no integer.
RetryAfterValues ==
    {<<"3">>, <<"0">>, <<"-", "2">>, <<"1", "2">>, <<"s", "o", "o", "n">>}

NoBody == [json |-> "none", ok |-> "absent", error |-> "absent"]

\* A response body: not JSON, a JSON list, or a JSON object with or without
\* "ok" and "error".
Bodies ==
    {[json |-> "invalid", ok |-> "absent", error |-> "absent"],
     [json |-> "list", ok |-> "absent", error |-> "absent"],
     [json |-> "object", ok |-> "true", error |-> "absent"],
     [json |-> "object", ok |-> "false", error |-> "channel_not_found"],
     [json |-> "object", ok |-> "false", error |-> "absent"],
     [json |-> "object", ok |-> "absent", error |-> "absent"]}

NetworkFailure(e) ==
    [t |-> "neterr", exc |-> e, status |-> 0, has_retry_after |-> FALSE,
     retry_after |-> <<>>, body |-> NoBody]

Response(st, has, ra, b) ==
    [t |-> "resp", exc |-> "None", status |-> st, has_retry_after |-> has,
     retry_after |-> ra, body |-> b]

Outcomes ==
    {NetworkFailure(e) : e \in NetworkErrors}
    \cup {Response(429, TRUE, ra, NoBody) : ra \in RetryAfterValues}
    \cup {Response(429, FALSE, <<>>, NoBody)}
    \cup {Response(st, FALSE, <<>>, NoBody) : st \in {400, 404, 500, 503}}
    \cup {Response(200, FALSE, <<>>, b) : b \in Bodies}
    \cup {Response(302, FALSE, <<>>, [json |-> "invalid", ok |-> "absent", error |-> "absent"])}

(***************************************************************************)
(* How an invocation ends.                                                 *)
(***************************************************************************)
NoResult ==
    [kind |-> "none", exc |-> "None", msg |-> "", status |-> 0, target |-> "",
     error |-> "", data |-> NoBody, cause |-> "None"]

Returned(body, st) ==
    [NoResult EXCEPT !.kind = "return", !.data = body, !.status = st]

Raised(exc, msg, target) ==
    [NoResult EXCEPT !.kind = "raise", !.exc = exc, !.msg = msg, !.target = target]

\* The statements after the attempt loop (client.py 98-100, 142-144).
AfterLoop(le, target) ==
    IF le # "None"
    THEN [Raised("SlackCLIError", "last_error", target) EXCEPT !.cause = le]
    ELSE Raised("SlackCLIError", "request_failed", target)

(***************************************************************************)
(* One pass of the attempt loop of call / call_raw.                        *)
(***************************************************************************)
max_retries == 2

\* Mutant: attempt <= max_retries.
ShouldRetry_Inclusive(a) == a <= max_retries

ShouldRetry(a) == a < max_retries

\* Mutant: time.sleep(0.4 * attempt).
NetworkBackoff_FromZero(a) == 4 * a

\* time.sleep(0.4 * (attempt + 1)), in tenths of a second
NetworkBackoff(a) == 4 * (a + 1)

\* time.sleep(0.5 * (attempt + 1)), in tenths of a second
ServerBackoff(a) == 5 * (a + 1)

\* response.headers.get("Retry-After", "1")
RetryAfterHeader(out) == IF out.has_retry_after THEN out.retry_after ELSE <<"1">>

\* Mutant: time.sleep(retry_after), without the floor of one second.
RateLimitSleep_NoFloor(retry_after) == 10 * retry_after

\* time.sleep(max(retry_after, 1)), in tenths of a second
RateLimitSleep(retry_after) == 10 * Max(retry_after, 1)

\* Mutant: only a 5xx is an HTTP error.
IsHttpError_Only5xx(st) == st >= 500

IsHttpError(st) == st >= 400

\* Mutant: a payload without "ok" passes.
IsOk_Lenient(data) == data.ok # "false"

IsOk(data) == data.ok = "true"

Continue(sleep, le) ==
    [next |-> "continue", sleep |-> sleep, last_error |-> le, result |-> NoResult]

Finish(res, le) ==
    [next |-> "finish", sleep |-> 0, last_error |-> le, result |-> res]

\* Mutant: every status >= 400 is retried on the linear schedule.
RetryDecision_Any4xx(a, le, out) ==
    IF out.status = 429 /\ ShouldRetry(a)
    THEN LET ra == PyInt(RetryAfterHeader(out)) IN
         IF ra.ok THEN Continue(RateLimitSleep(ra.val), le)
         ELSE Finish(Raised("ValueError", "int", ""), le)
    ELSE IF out.status >= 400 /\ ShouldRetry(a)
    THEN Continue(ServerBackoff(a), le)
    ELSE [next |-> "none", sleep |-> 0, last_error |-> le, result |-> NoResult]

\* The retry part the two functions share: "none" when the response is not
\* retried and falls through to the rest of the loop body.
RetryDecision(a, le, out) ==
    IF out.status = 429 /\ ShouldRetry(a)
    THEN LET ra == PyInt(RetryAfterHeader(out)) IN
         IF ra.ok THEN Continue(RateLimitSleep(ra.val), le)
         ELSE Finish(Raised("ValueError", "int", ""), le)
    ELSE IF out.status >= 500 /\ ShouldRetry(a)
    THEN Continue(ServerBackoff(a), le)
    ELSE [next |-> "none", sleep |-> 0, last_error |-> le, result |-> NoResult]

\* Mutant: a network failure is retried on every attempt, the last included.
NetworkDecision_AlwaysRetried(a, out) == Continue(NetworkBackoff(a), out.exc)

\* client.py 64-69: the message of the error raised names the exception, not
\* the method.
NetworkDecision(a, out) ==
    IF ShouldRetry(a)
    THEN Continue(NetworkBackoff(a), out.exc)
    ELSE Finish([Raised("SlackCLIError", "network", "") EXCEPT !.cause = out.exc],
                out.exc)

\* client.py 85-96: parse the body, check "ok"
ParseAndCheck(m, out) ==
    IF out.body.json = "invalid"
    THEN Raised("SlackCLIError", "invalid_json", m)
    ELSE IF out.body.json # "object"
    THEN Raised("AttributeError", "get", "")
    ELSE IF ~IsOk(out.body)
    THEN [Raised("SlackApiError", "api", m) EXCEPT
            !.error = IF out.body.error = "absent" THEN "unknown_error"
                      ELSE out.body.error,
            !.data = out.body]
    ELSE Returned(out.body, out.status)

call_body(m, a, le, out) ==
    IF out.t = "neterr" THEN NetworkDecision(a, out)
    ELSE LET r == RetryDecision(a, le, out) IN
         IF r.next # "none" THEN r
         ELSE IF IsHttpError(out.status)
         THEN Finish([Raised("SlackCLIError", "http", m) EXCEPT !.status = out.status], le)
         ELSE Finish(ParseAndCheck(m, out), le)

call_raw_body(a, le, out) ==
    IF out.t = "neterr" THEN NetworkDecision(a, out)
    ELSE LET r == RetryDecision(a, le, out) IN
         IF r.next # "none" THEN r
         ELSE Finish(Returned(out.body, out.status), le)

(***************************************************************************)
(* The arguments a caller passes.                                          *)
(***************************************************************************)
Methods == {"auth.test", "conversations.info"}

PyNone == [none |-> TRUE, d |-> EmptyDict]
Dict(d) == [none |-> FALSE, d |-> d]

\* params: None, {}, a map without "token", and maps that carry a "token" key
\* of their own (api.py's _parse_params keeps any key=value the user types).
ParamInputs ==
    {PyNone,
     Dict(EmptyDict),
     Dict("channel" :> "C1"),
     Dict("token" :> "xoxp-other"),
     Dict(("channel" :> "C1") @@ ("token" :> ""))}

\* endpoint: "m", "/api/m", "api/" (empty once stripped), " " and an absolute URL
Endpoints ==
    {<<"m">>,
     <<"/", "a", "p", "i", "/", "m">>,
     <<"a", "p", "i", "/">>,
     <<" ">>,
     <<"h", "t", "t", "p", ":", "/", "/", "x", "/", "m">>}

\* http_method: "GET", " get ", "POST" and ""
HttpMethods ==
    {GET, <<" ", "g", "e", "t", " ">>, POST, <<>>}

(***************************************************************************)
(* Transport: the state after SlackClient.__init__, before any call.       *)
(***************************************************************************)
TInit ==
    /\ pc = "idle"
    /\ fn = "none"
    /\ method = ""
    /\ endpoint = <<>>
    /\ http_method = <<>>
    /\ params = PyNone
    /\ payload = EmptyDict
    /\ attempt = 0
    /\ last_error = "None"
    /\ requests = <<>>
    /\ responses = <<>>
    /\ sleeps = <<>>
    /\ clock = 0
    /\ result = NoResult

\* self._http.post(method, data=payload)
PostRequest(m, pl, now) ==
    [verb |-> POST, url |-> <<m>>, where |-> "data", payload |-> pl, at |-> now]

\* self._http.request(method, url, params=payload | data=payload)
RawRequest(h, e, pl, now) ==
    [verb |-> NormalizedVerb(h), url |-> api_url(e).url,
     where |-> IF NormalizedVerb(h) = GET THEN "params" ELSE "data",
     payload |-> pl, at |-> now]

\* What a pass of the loop leaves behind: the sleep, the next value of the
\* loop variable, or the end of the invocation.  A `continue` on the last
\* value of range(max_retries + 1) leaves the loop and runs AfterLoop.
LoopEffect(r, target) ==
    /\ last_error' = r.last_error
    /\ IF r.next = "continue"
       THEN /\ sleeps' = Append(sleeps, r.sleep)
            /\ clock' = clock + r.sleep
            /\ IF attempt + 1 <= max_retries
               THEN /\ attempt' = attempt + 1
                    /\ pc' = "loop"
                    /\ result' = NoResult
               ELSE /\ attempt' = attempt
                    /\ pc' = "done"
                    /\ result' = AfterLoop(r.last_error, target)
       ELSE /\ UNCHANGED <<sleeps, clock, attempt>>
            /\ pc' = "done"
            /\ result' = r.result

\* SlackClient.call, up to the attempt loop
CallStart ==
    /\ pc = "idle"
    /\ s_pc = "idle"
    /\ \E m \in Methods, p \in ParamInputs :
         /\ fn' = "call"
         /\ method' = m
         /\ params' = p
         /\ payload' = SetDefault(DictOrEmpty(p), "token", settings_token)
    /\ pc' = "loop"
    /\ attempt' = 0
    /\ last_error' = "None"
    /\ UNCHANGED <<endpoint, http_method, requests, responses, sleeps, clock, result>>
    /\ UNCHANGED <<hvars, svars, cvars>>

\* SlackClient.call: one pass of the attempt loop
CallAttempt ==
    /\ pc = "loop"
    /\ fn = "call"
    /\ \E out \in Outcomes :
         /\ requests' = Append(requests, PostRequest(method, payload, clock))
         /\ responses' = Append(responses, out)
         /\ LoopEffect(call_body(method, attempt, last_error, out), method)
    /\ UNCHANGED <<fn, method, endpoint, http_method, params, payload>>
    /\ UNCHANGED <<hvars, svars, cvars>>

\* SlackClient.call_raw, up to the attempt loop
CallRawStart ==
    /\ pc = "idle"
    /\ s_pc = "idle"
    /\ \E e \in Endpoints, h \in HttpMethods, p \in ParamInputs :
         /\ fn' = "call_raw"
         /\ endpoint' = e
         /\ http_method' = h
         /\ params' = p
         /\ IF api_url(e).ok
            THEN /\ payload' = SetDefault(DictOrEmpty(p), "token", settings_token)
                 /\ pc' = "loop"
                 /\ result' = NoResult
            ELSE /\ payload' = EmptyDict
                 /\ pc' = "done"
                 /\ result' = Raised("SlackCLIError", "endpoint_empty", "")
    /\ attempt' = 0
    /\ last_error' = "None"
    /\ UNCHANGED <<method, requests, responses, sleeps, clock>>
    /\ UNCHANGED <<hvars, svars, cvars>>

\* SlackClient.call_raw: one pass of the attempt loop
CallRawAttempt ==
    /\ pc = "loop"
    /\ fn = "call_raw"
    /\ \E out \in Outcomes :
         /\ requests' = Append(requests, RawRequest(http_method, endpoint, payload, clock))
         /\ responses' = Append(responses, out)
         /\ LoopEffect(call_raw_body(attempt, last_error, out), "")
    /\ UNCHANGED <<fn, method, endpoint, http_method, params, payload>>
    /\ UNCHANGED <<hvars, svars, cvars>>

TNext == CallStart \/ CallAttempt \/ CallRawStart \/ CallRawAttempt

(***************************************************************************)
(* List scans: what the server holds and what the caller asks for.         *)
(***************************************************************************)
MaxCursors == 3
MaxServed == 3
MaxCeiling == 3

\* The next_cursor values of the server ("" is the empty / absent one).
Cursors == {ToString(i) : i \in 1..MaxCursors}

LowerChar(c) ==
    CASE c = "D" -> "d" [] c = "E" -> "e" [] c = "V" -> "v"
      [] c = "A" -> "a" [] c = "N" -> "n" [] c = "U" -> "u"
      [] c = "C" -> "c" [] c = "G" -> "g" [] OTHER -> c

RECURSIVE Lower(_)
Lower(s) == IF s = <<>> THEN <<>> ELSE <<LowerChar(Head(s))>> \o Lower(Tail(s))

\* Two conversation objects: the channel "Dev " and the DM with user U1.
\* An absent key is "" (id, user) or <<>> (name).
ChannelDev == [id |-> "C1", name |-> <<"D", "e", "v", " ">>, user |-> ""]
DmU1 == [id |-> "D1", name |-> <<>>, user |-> "U1"]
Channels == {ChannelDev, DmU1}

\* Every page of at most n items.
Pages(n) == UNION {[1..k -> Channels] : k \in 0..n}

\* max_pages / max_items: None (-1) or a ceiling.
Ceilings == {-1} \cup (0..MaxCeiling)

\* find_conversations_by_name's name argument: " DEV" and " "
NameInputs == {<<" ", "D", "E", "V">>, <<" ">>}

\* conversations_list's types argument
TypesInputs == {<<>>, <<"im">>}

max_matches == 2

NoArgs == [name |-> <<>>, types |-> <<>>, user_id |-> ""]

NoScanResult == [kind |-> "none", value |-> <<>>]
ScanReturned(v) == [kind |-> "return", value |-> v]
ScanRaised == [kind |-> "raise", value |-> <<>>]

SInit ==
    /\ s_pc = "idle"
    /\ s_fn = "none"
    /\ max_pages = -1
    /\ max_items = -1
    /\ cursor = ""
    /\ seen_cursors = {}
    /\ page_count = 0
    /\ collected = <<>>
    /\ sent_cursors = <<>>
    /\ next_cursors = <<>>
    /\ conversation_cache = EmptyDict
    /\ scan_args = NoArgs
    /\ served = 0
    /\ pages = <<>>
    /\ s_result = NoScanResult

(***************************************************************************)
(* The loop bodies.                                                        *)
(***************************************************************************)
\* self._conversation_cache[channel_id] = channel, when the channel has an id
CachePut(cache, ch) ==
    IF Get(ch, "id", "") # ""
    THEN [k \in DOMAIN cache \cup {ch.id} |-> IF k = ch.id THEN ch ELSE cache[k]]
    ELSE cache

RECURSIVE CachePutAll(_, _)
CachePutAll(cache, chs) ==
    IF chs = <<>> THEN cache ELSE CachePutAll(CachePut(cache, Head(chs)), Tail(chs))

\* Mutant: the seen-cursor check is dropped.
CursorSeen_Never(next_cursor, seen) == FALSE

\* `if next_cursor in seen_cursors`
CursorSeen(next_cursor, seen) == next_cursor \in seen

\* `if max_pages is not None and page_count >= max_pages`
PageLimitReached(mp, n) == mp # -1 /\ n >= mp

\* The end of a page (client.py 165-173, 275-283, 320-328): whether the loop
\* breaks, and the locals it leaves.  mp is max_pages (-1: None), n is
\* page_count after this page.

\* Mutant: the next cursor is recorded as seen but never sent.
EndOfPage_KeepCursor(next_cursor, cur, seen, mp, n) ==
    IF next_cursor = "" \/ CursorSeen(next_cursor, seen)
    THEN [stop |-> TRUE, cursor |-> cur, seen |-> seen]
    ELSE [stop |-> PageLimitReached(mp, n), cursor |-> cur,
          seen |-> seen \cup {next_cursor}]

EndOfPage(next_cursor, cur, seen, mp, n) ==
    IF next_cursor = ""
    THEN [stop |-> TRUE, cursor |-> cur, seen |-> seen]
    ELSE IF CursorSeen(next_cursor, seen)
    THEN [stop |-> TRUE, cursor |-> cur, seen |-> seen]
    ELSE [stop |-> PageLimitReached(mp, n), cursor |-> next_cursor,
          seen |-> seen \cup {next_cursor}]

\* conversations_list's loop over the items _paginate yields (client.py
\* 214-222): mi is max_items (-1: None).
ItemLimitReached(mi, n) == mi # -1 /\ n >= mi

RECURSIVE TakeItems(_, _, _)
TakeItems(chs, items, mi) ==
    IF items = <<>> THEN [channels |-> chs, broke |-> FALSE]
    ELSE LET more == Append(chs, Head(items)) IN
         IF ItemLimitReached(mi, Len(more))
         THEN [channels |-> more, broke |-> TRUE]
         ELSE TakeItems(more, Tail(items), mi)

\* find_conversations_by_name's loop over one page (client.py 264-273)
NameMatches(ch, needle) == Lower(Strip(ch.name)) = needle

RECURSIVE ScanNames(_, _, _, _)
ScanNames(matches, cache, items, needle) ==
    IF items = <<>> THEN [matches |-> matches, cache |-> cache, returned |-> FALSE]
    ELSE LET c2 == CachePut(cache, Head(items))
             m2 == IF NameMatches(Head(items), needle)
                   THEN Append(matches, Head(items)) ELSE matches
         IN  IF NameMatches(Head(items), needle) /\ Len(m2) >= max_matches
             THEN [matches |-> m2, cache |-> c2, returned |-> TRUE]
             ELSE ScanNames(m2, c2, Tail(items), needle)

\* find_dm_by_user_id's loop over one page (client.py 313-318)
RECURSIVE ScanDms(_, _, _)
ScanDms(cache, items, user_id) ==
    IF items = <<>> THEN [found |-> <<>>, cache |-> cache]
    ELSE LET c2 == CachePut(cache, Head(items)) IN
         IF Head(items).user = user_id
         THEN [found |-> <<Head(items)>>, cache |-> c2]
         ELSE ScanDms(c2, Tail(items), user_id)

(***************************************************************************)
(* The scans, one page request per step.                                   *)
(***************************************************************************)
ScanStart(f, mp, mi, args) ==
    /\ s_pc = "idle"
    /\ pc = "idle"
    /\ s_fn' = f
    /\ max_pages' = mp
    /\ max_items' = mi
    /\ scan_args' = args
    /\ cursor' = ""
    /\ seen_cursors' = {}
    /\ page_count' = 0
    /\ collected' = <<>>
    /\ UNCHANGED <<sent_cursors, next_cursors, conversation_cache, served, pages>>
    /\ UNCHANGED <<hvars, tvars, cvars>>

\* list(self._paginate(method, params, item_key, max_pages=...))
PaginateStart ==
    /\ \E mp \in Ceilings : ScanStart("_paginate", mp, -1, NoArgs)
    /\ s_pc' = "scan"
    /\ s_result' = NoScanResult

\* conversations_list: `if not types: return []`
ConversationsListStart ==
    /\ \E mp \in Ceilings, mi \in Ceilings, ty \in TypesInputs :
         /\ ScanStart("conversations_list", mp, mi, [NoArgs EXCEPT !.types = ty])
         /\ s_pc' = IF ty = <<>> THEN "done" ELSE "scan"
         /\ s_result' = IF ty = <<>> THEN ScanReturned(<<>>) ELSE NoScanResult

\* find_conversations_by_name: `if not needle: return []`
FindByNameStart ==
    /\ \E mp \in 0..MaxCeiling, nm \in NameInputs :
         /\ ScanStart("find_conversations_by_name", mp, -1, [NoArgs EXCEPT !.name = nm])
         /\ s_pc' = IF Strip(Lower(nm)) = <<>> THEN "done" ELSE "scan"
         /\ s_result' = IF Strip(Lower(nm)) = <<>> THEN ScanReturned(<<>>) ELSE NoScanResult

FindDmStart ==
    /\ \E mp \in 0..MaxCeiling :
         ScanStart("find_dm_by_user_id", mp, -1, [NoArgs EXCEPT !.user_id = "U1"])
    /\ s_pc' = "scan"
    /\ s_result' = NoScanResult

\* The request of one pass: `if cursor: params["cursor"] = cursor`, then
\* self.call(...).
SendPage ==
    /\ sent_cursors' = Append(sent_cursors, cursor)
    /\ page_count' = page_count + 1

\* self.call raised: the error leaves the scan.
PageFails ==
    /\ s_pc = "scan"
    /\ SendPage
    /\ s_pc' = "done"
    /\ s_result' = ScanRaised
    /\ UNCHANGED <<s_fn, max_pages, max_items, cursor, seen_cursors, collected,
                   next_cursors, conversation_cache, scan_args, served, pages>>
    /\ UNCHANGED <<hvars, tvars, cvars>>

\* The locals the end of the page leaves, and whether the loop goes on.
Advance(e, final) ==
    /\ cursor' = e.cursor
    /\ seen_cursors' = e.seen
    /\ s_pc' = IF e.stop THEN "done" ELSE "scan"
    /\ s_result' = IF e.stop THEN final ELSE NoScanResult

\* _paginate consumed by list(): every item of every page
PaginatePage ==
    /\ s_pc = "scan"
    /\ s_fn = "_paginate"
    /\ SendPage
    /\ \E items \in Pages(MaxServed - served), nc \in Cursors \cup {""} :
         LET e == EndOfPage(nc, cursor, seen_cursors, max_pages, page_count + 1) IN
         /\ served' = served + Len(items)
         /\ pages' = Append(pages, items)
         /\ next_cursors' = Append(next_cursors, nc)
         /\ collected' = collected \o items
         /\ Advance(e, ScanReturned(collected \o items))
    /\ UNCHANGED <<s_fn, max_pages, max_items, conversation_cache, scan_args>>
    /\ UNCHANGED <<hvars, tvars, cvars>>

\* conversations_list: one page of _paginate, consumed until max_items
ConversationsListPage ==
    /\ s_pc = "scan"
    /\ s_fn = "conversations_list"
    /\ SendPage
    /\ \E items \in Pages(MaxServed - served), nc \in Cursors \cup {""} :
         LET t == TakeItems(collected, items, max_items)
             e == EndOfPage(nc, cursor, seen_cursors, max_pages, page_count + 1)
             over == t.broke \/ e.stop
         IN  /\ served' = served + Len(items)
             /\ pages' = Append(pages, items)
             /\ next_cursors' = Append(next_cursors, nc)
             /\ collected' = t.channels
             /\ IF t.broke
                THEN /\ UNCHANGED <<cursor, seen_cursors>>
                     /\ s_pc' = "done"
                     /\ s_result' = ScanReturned(t.channels)
                ELSE Advance(e, ScanReturned(t.channels))
             /\ conversation_cache' =
                  IF over THEN CachePutAll(conversation_cache, t.channels)
                  ELSE conversation_cache
    /\ UNCHANGED <<s_fn, max_pages, max_items, scan_args>>
    /\ UNCHANGED <<hvars, tvars, cvars>>

FindByNamePage ==
    /\ s_pc = "scan"
    /\ s_fn = "find_conversations_by_name"
    /\ SendPage
    /\ \E items \in Pages(MaxServed - served), nc \in Cursors \cup {""} :
         LET r == ScanNames(collected, conversation_cache, items,
                            Strip(Lower(scan_args.name)))
             e == EndOfPage(nc, cursor, seen_cursors, max_pages, page_count + 1)
         IN  /\ served' = served + Len(items)
             /\ pages' = Append(pages, items)
             /\ next_cursors' = Append(next_cursors, nc)
             /\ collected' = r.matches
             /\ conversation_cache' = r.cache
             /\ IF r.returned
                THEN /\ UNCHANGED <<cursor, seen_cursors>>
                     /\ s_pc' = "done"
                     /\ s_result' = ScanReturned(r.matches)
                ELSE Advance(e, ScanReturned(r.matches))
    /\ UNCHANGED <<s_fn, max_pages, max_items, scan_args>>
    /\ UNCHANGED <<hvars, tvars, cvars>>

FindDmPage ==
    /\ s_pc = "scan"
    /\ s_fn = "find_dm_by_user_id"
    /\ SendPage
    /\ \E items \in Pages(MaxServed - served), nc \in Cursors \cup {""} :
         LET r == ScanDms(conversation_cache, items, scan_args.user_id)
             e == EndOfPage(nc, cursor, seen_cursors, max_pages, page_count + 1)
         IN  /\ served' = served + Len(items)
             /\ pages' = Append(pages, items)
             /\ next_cursors' = Append(next_cursors, nc)
             /\ conversation_cache' = r.cache
             /\ collected' = r.found
             /\ IF r.found # <<>>
                THEN /\ UNCHANGED <<cursor, seen_cursors>>
                     /\ s_pc' = "done"
                     /\ s_result' = ScanReturned(r.found)
                ELSE Advance(e, ScanReturned(<<>>))
    /\ UNCHANGED <<s_fn, max_pages, max_items, scan_args>>
    /\ UNCHANGED <<hvars, tvars, cvars>>

SNext ==
    \/ PaginateStart
    \/ ConversationsListStart
    \/ FindByNameStart
    \/ FindDmStart
    \/ PageFails
    \/ PaginatePage
    \/ ConversationsListPage
    \/ FindByNamePage
    \/ FindDmPage

(***************************************************************************)
(* Resolving targets: what the server holds and what the caller types.     *)
(***************************************************************************)
MaxChannels == 3
MaxExtra == 8
MaxDms == 1
UsersPerPage == 4
MaxOps == 2
MaxSnapshots == 3

\* "".join(text)
RECURSIVE Join(_)
Join(text) == IF text = <<>> THEN "" ELSE Head(text) \o Join(Tail(text))

\* str.removeprefix
RemovePrefix(s, p) == IF StartsWith(s, p) THEN SubSeq(s, Len(p) + 1, Len(s)) ELSE s

UpperLetters ==
    {"A", "B", "C", "D", "E", "F", "G", "H", "I", "J", "K", "L", "M",
     "N", "O", "P", "Q", "R", "S", "T", "U", "V", "W", "X", "Y", "Z"}

\* [A-Z0-9]+$ from position 2 on
UpperAlnumTail(s) ==
    /\ Len(s) >= 2
    /\ \A i \in 2..Len(s) : s[i] \in UpperLetters \cup DigitChars

\* Mutant: the pattern without its D.
CONVERSATION_ID_RE_NoD(s) == UpperAlnumTail(s) /\ s[1] \in {"C", "G"}

\* CONVERSATION_ID_RE.match(raw)
CONVERSATION_ID_RE(s) == UpperAlnumTail(s) /\ s[1] \in {"C", "D", "G"}

\* USER_ID_RE.match(raw)
USER_ID_RE(s) == UpperAlnumTail(s) /\ s[1] = "U"

\* The conversations of the server: public channels C1, C2, ... named "Dev"
\* or "ops", and DM conversations D1, ... with peer U1 or U2.
ChannelNames == {<<"D", "e", "v">>, <<"o", "p", "s">>}
PublicChannel(i, nm) == [id |-> "C" \o ToString(i), name |-> nm, user |-> ""]
ChannelSeqs ==
    UNION {{[i \in 1..k |-> PublicChannel(i, f[i])] : f \in [1..k -> ChannelNames]} :
             k \in 0..MaxChannels}

DmPeers == {"U1", "U2"}
Im(i, u) == [id |-> "D" \o ToString(i), name |-> <<>>, user |-> u]
DmSeqs ==
    UNION {{[i \in 1..k |-> Im(i, f[i])] : f \in [1..k -> DmPeers]} : k \in 0..MaxDms}

\* A listing in one page, or cut in two pages anywhere (either may be empty).
Splits(items) ==
    {<<items>>} \cup
    {<<SubSeq(items, 1, k), SubSeq(items, k + 1, Len(items))>> : k \in 0..Len(items)}

\* The responses of a server paging through ps: every page but the last
\* carries a next_cursor.
ServerPages(ps) ==
    [i \in 1..Len(ps) |->
        [items |-> ps[i], next_cursor |-> IF i = Len(ps) THEN "" ELSE ToString(i)]]

\* self.call raises on the first request.
CallRaises == <<>>

ChannelListings == {ServerPages(ps) : ps \in UNION {Splits(c) : c \in ChannelSeqs}}
DmListings == {ServerPages(ps) : ps \in UNION {Splits(c) : c \in DmSeqs}}

\* The listings of ls cut after their first page: self.call raises on the
\* second request.
FailingLater(ls) == {SubSeq(l, 1, 1) : l \in {x \in ls : Len(x) >= 2}}

\* What a scan of the resolvers may be answered with.
ChannelResponses == ChannelListings \cup FailingLater(ChannelListings) \cup {CallRaises}
DmResponses == DmListings \cup FailingLater(DmListings) \cup {CallRaises}

\* The users of the server.  User i has ID Ui; its kind says where "ann"
\* stands in it ("several": in its handle, display name and real name).
Ann == <<"a", "n", "n">>
Bob == <<"b", "o", "b">>
UserKinds == {"handle", "display", "real", "several", "other", "deleted", "padded"}
User(i, kind) ==
    [id |-> "U" \o ToString(i),
     name |-> CASE kind \in {"handle", "several", "deleted"} -> Ann
                [] kind = "padded" -> Ann \o <<" ">>
                [] OTHER -> Bob,
     display_name |-> IF kind \in {"display", "several"} THEN <<"A", "n", "n">> ELSE <<>>,
     real_name |-> IF kind \in {"real", "several"} THEN <<"A", "N", "N">> ELSE <<>>,
     deleted |-> kind = "deleted"]

\* A directory: at most one user of any kind, then n users with handle "ann".
Directory(first, n) ==
    [i \in 1..(Len(first) + n) |->
        IF i <= Len(first) THEN User(i, first[i]) ELSE User(i, "handle")]
Directories ==
    {Directory(first, n) : first \in {<<>>} \cup {<<k>> : k \in UserKinds},
                           n \in {0, 1, 2, MaxExtra}}

\* The directory cut in pages of UsersPerPage users.
RECURSIVE Chunks(_)
Chunks(users) ==
    IF Len(users) <= UsersPerPage THEN <<users>>
    ELSE <<SubSeq(users, 1, UsersPerPage)>> \o
         Chunks(SubSeq(users, UsersPerPage + 1, Len(users)))
UserListings == {ServerPages(Chunks(d)) : d \in Directories}

\* The target argument, as typed.
Targets ==
    {<<"C", "1">>, <<" ", "G", "7", " ">>, <<"D", "E", "V">>,
     <<"#", "D", "e", "v">>, <<"d", "e", "v", " ">>, <<"#">>,
     <<"@", "A", "n", "n">>, <<"a", "n", "n">>, <<"@">>,
     <<"U", "1">>, <<"D", "1">>, <<"D", "a", "v", "e">>}

(***************************************************************************)
(* The scans of the resolvers, each run to its end against the responses   *)
(* resps of the server (CallRaises: the request fails).  st holds the      *)
(* locals: [cursor, seen, found, cache, sent].                             *)
(***************************************************************************)
ScanLocals(cache) ==
    [cursor |-> "", seen |-> {}, found |-> <<>>, cache |-> cache, sent |-> <<>>]

\* How a scan ended, what it returned, the conversation cache it leaves and
\* the cursor of every request it sent.
ScanEnd(kind, value, cache, sent) ==
    [kind |-> kind, value |-> value, cache |-> cache, sent |-> sent]

\* One more page, or the end.
NextLocals(e, found, cache, sent) ==
    [cursor |-> e.cursor, seen |-> e.seen, found |-> found, cache |-> cache,
     sent |-> sent]

\* _paginate read by list()
RECURSIVE paginate(_, _, _)
paginate(resps, mp, st) ==
    LET sent == Append(st.sent, st.cursor) IN
    IF resps = <<>> THEN ScanEnd("raise", <<>>, st.cache, sent)
    ELSE LET items == st.found \o Head(resps).items
             e == EndOfPage(Head(resps).next_cursor, st.cursor, st.seen, mp, Len(sent))
         IN  IF e.stop THEN ScanEnd("return", items, st.cache, sent)
             ELSE paginate(Tail(resps), mp, NextLocals(e, items, st.cache, sent))

RECURSIVE NameScan(_, _, _, _)
NameScan(resps, needle, mp, st) ==
    LET sent == Append(st.sent, st.cursor) IN
    IF resps = <<>> THEN ScanEnd("raise", <<>>, st.cache, sent)
    ELSE LET r == ScanNames(st.found, st.cache, Head(resps).items, needle)
             e == EndOfPage(Head(resps).next_cursor, st.cursor, st.seen, mp, Len(sent))
         IN  IF r.returned \/ e.stop THEN ScanEnd("return", r.matches, r.cache, sent)
             ELSE NameScan(Tail(resps), needle, mp, NextLocals(e, r.matches, r.cache, sent))

\* find_conversations_by_name(name, ..., max_pages=mp)
find_conversations_by_name(name, mp, cache, resps) ==
    IF Strip(Lower(name)) = <<>> THEN ScanEnd("return", <<>>, cache, <<>>)
    ELSE NameScan(resps, Strip(Lower(name)), mp, ScanLocals(cache))

RECURSIVE DmScan(_, _, _, _)
DmScan(resps, user_id, mp, st) ==
    LET sent == Append(st.sent, st.cursor) IN
    IF resps = <<>> THEN ScanEnd("raise", <<>>, st.cache, sent)
    ELSE LET r == ScanDms(st.cache, Head(resps).items, user_id)
             e == EndOfPage(Head(resps).next_cursor, st.cursor, st.seen, mp, Len(sent))
         IN  IF r.found # <<>> \/ e.stop THEN ScanEnd("return", r.found, r.cache, sent)
             ELSE DmScan(Tail(resps), user_id, mp, NextLocals(e, <<>>, r.cache, sent))

\* find_dm_by_user_id(user_id, max_pages=mp)
find_dm_by_user_id(user_id, mp, cache, resps) ==
    DmScan(resps, user_id, mp, ScanLocals(cache))

(***************************************************************************)
(* The resolvers (resolve.py) and the user directory (client.py 181-193).  *)
(***************************************************************************)
\* exact[:8]
MaxCandidates == 8

\* max_pages=20 of the resolvers' scans
ResolverMaxPages == 20

\* How an operation ended.  id: the ID returned; candidates: the IDs of an
\* AmbiguousTargetError's candidates; users / map: what users_all /
\* users_map returned.
NoRResult ==
    [kind |-> "none", exc |-> "", msg |-> "", id |-> "", candidates |-> <<>>,
     users |-> <<>>, map |-> EmptyDict, snapshot |-> EmptyDict]
RReturn(id) == [NoRResult EXCEPT !.kind = "return", !.id = id]
RRaise(exc, msg) == [NoRResult EXCEPT !.kind = "raise", !.exc = exc, !.msg = msg]
CallError == RRaise("SlackCLIError", "call")

\* What self.call raises (client.py 69, 80-94): a network error, an HTTP
\* error, an API error.  NoError: no call failed.
TransportErrors ==
    {[exc |-> "SlackCLIError", msg |-> "network"],
     [exc |-> "SlackCLIError", msg |-> "http"],
     [exc |-> "SlackApiError", msg |-> "api"]}
NoError == [exc |-> "", msg |-> ""]

\* The errors a call may have raised: one of them when it failed.
ErrorsIf(failed) == IF failed THEN TransportErrors ELSE {NoError}

\* Mutant: the resolvers report every error of the Transport as one kind.
Thrown_Reclassified(e) == RRaise("SlackCLIError", "call")

\* The exception e leaves the function that made the call.
Thrown(e) == RRaise(e.exc, e.msg)

\* One entry of r_events.
Ev(ev, f, text, out) ==
    [ev |-> ev, fn |-> f, text |-> text, out |-> out, cursor |-> ""]

\* One request per page asked for, with the cursor it carried.
Requests(m, sent) ==
    [i \in 1..Len(sent) |-> [Ev("request", m, <<>>, "") EXCEPT !.cursor = sent[i]]]

\* The items of the pages a scan was served.
ServedPages(resps, sent) ==
    [i \in 1..Min(Len(sent), Len(resps)) |-> resps[i].items]

Candidates(exact) == [i \in 1..Min(Len(exact), MaxCandidates) |-> exact[i].id]

\* Mutant: the first match is taken.
PickConversation_First(exact) ==
    IF exact[1].id = "" THEN RRaise("NotFoundError", "missing_id")
    ELSE RReturn(exact[1].id)

\* resolve.py 42-59, exact not empty
PickConversation(exact) ==
    IF Len(exact) > 1
    THEN [RRaise("AmbiguousTargetError", "multiple_conversations")
            EXCEPT !.candidates = Candidates(exact)]
    ELSE IF exact[1].id = "" THEN RRaise("NotFoundError", "missing_id")
    ELSE RReturn(exact[1].id)

\* Mutant: deleted users are kept.
UserMatches_Deleted(user, needle) ==
    needle \in {Lower(user.name), Lower(user.display_name), Lower(user.real_name)}

\* resolve.py 75-82
UserMatches(user, needle) ==
    /\ ~user.deleted
    /\ needle \in {Lower(user.name), Lower(user.display_name), Lower(user.real_name)}

\* Mutant: a user is appended once for every field that matches.
RECURSIVE MatchUsers_PerField(_, _)
MatchUsers_PerField(users, needle) ==
    IF users = <<>> THEN <<>>
    ELSE LET u == Head(users)
             Once(field) == IF ~u.deleted /\ needle = Lower(field) THEN <<u>> ELSE <<>>
         IN  Once(u.name) \o Once(u.display_name) \o Once(u.real_name)
             \o MatchUsers_PerField(Tail(users), needle)

MatchUsers(users, needle) == SelectSeq(users, LAMBDA u : UserMatches(u, needle))

\* resolve.py 84-103
PickUser(exact) ==
    IF exact = <<>> THEN RRaise("NotFoundError", "no_user")
    ELSE IF Len(exact) > 1
    THEN [RRaise("AmbiguousTargetError", "multiple_users")
            EXCEPT !.candidates = Candidates(exact)]
    ELSE IF exact[1].id = "" THEN RRaise("NotFoundError", "user_missing_id")
    ELSE RReturn(exact[1].id)

\* users_all against the cache ucache: what it returns, the cache it leaves
\* and the requests it sent.
NoScan(ucache) == [kind |-> "return", users |-> <<>>, cache |-> ucache, sent |-> <<>>]

\* Mutant: the cache is never read.
users_all_Refetch(ucache, resps) ==
    LET r == paginate(resps, -1, ScanLocals(EmptyDict)) IN
    IF r.kind = "raise"
    THEN [kind |-> "raise", users |-> <<>>, cache |-> ucache, sent |-> r.sent]
    ELSE [kind |-> "return", users |-> r.value,
          cache |-> [none |-> FALSE, d |-> r.value], sent |-> r.sent]

\* The members of the pages resps, in order.
RECURSIVE Members(_)
Members(resps) ==
    IF resps = <<>> THEN <<>> ELSE Head(resps).items \o Members(Tail(resps))

\* Mutant: the members read before a failure are cached.
users_all_PartialCache(ucache, resps) ==
    IF ucache.none
    THEN LET r == paginate(resps, -1, ScanLocals(EmptyDict)) IN
         IF r.kind = "raise"
         THEN [kind |-> "raise", users |-> <<>>,
               cache |-> [none |-> FALSE, d |-> Members(resps)], sent |-> r.sent]
         ELSE [kind |-> "return", users |-> r.value,
               cache |-> [none |-> FALSE, d |-> r.value], sent |-> r.sent]
    ELSE [kind |-> "return", users |-> ucache.d, cache |-> ucache, sent |-> <<>>]

users_all(ucache, resps) ==
    IF ucache.none
    THEN LET r == paginate(resps, -1, ScanLocals(EmptyDict)) IN
         IF r.kind = "raise"
         THEN [kind |-> "raise", users |-> <<>>, cache |-> ucache, sent |-> r.sent]
         ELSE [kind |-> "return", users |-> r.value,
               cache |-> [none |-> FALSE, d |-> r.value], sent |-> r.sent]
    ELSE [kind |-> "return", users |-> ucache.d, cache |-> ucache, sent |-> <<>>]

\* The responses users.list would get: asked for only while the cache is None.
FirstUsersResponses == UserListings \cup FailingLater(UserListings) \cup {CallRaises}
UsersResponses == IF users_cache.none THEN FirstUsersResponses ELSE {CallRaises}

\* The users.list scans of the client, with the one users_all just made, and
\* the directory the server showed in it.
ScansAfter(a) ==
    /\ users_scans' = IF a.sent = <<>> THEN users_scans
                      ELSE Append(users_scans, [ok |-> a.kind = "return", users |-> a.users])
    /\ srv_users' = IF a.sent # <<>> /\ a.kind = "return" THEN a.users ELSE srv_users

\* resolve_user_id(client, target)
resolve_user_id(target, ucache, resps) ==
    LET raw == Strip(target)
        needle == Strip(Lower(RemovePrefix(raw, <<"@">>)))
    IN  IF USER_ID_RE(raw) THEN [res |-> RReturn(Join(raw)), all |-> NoScan(ucache)]
        ELSE IF needle = <<>>
        THEN [res |-> RRaise("NotFoundError", "empty_handle"), all |-> NoScan(ucache)]
        ELSE LET a == users_all(ucache, resps) IN
             [res |-> IF a.kind = "raise" THEN CallError
                      ELSE PickUser(MatchUsers(a.users, needle)),
              all |-> a]

\* {user["id"]: user for user in users if user.get("id")}
UsersById(users) ==
    [k \in {users[i].id : i \in 1..Len(users)} \ {""} |->
        LET last == CHOOSE i \in 1..Len(users) :
                      /\ users[i].id = k
                      /\ \A j \in 1..Len(users) : users[j].id = k => j <= i
        IN  users[last]]

(***************************************************************************)
(* The client's operations.  users_all, users_map and resolve_user_id are  *)
(* one step each; resolve_conversation_id and resolve_dm_id take one step  *)
(* per scan they run, and end the life of the client of this model.        *)
(***************************************************************************)
CInit ==
    /\ users_cache = [none |-> TRUE, d |-> <<>>]
    /\ users_map_cache = [none |-> TRUE, d |-> EmptyDict]
    /\ conversation_snapshot_cache = EmptyDict
    /\ n_ops = 0
    /\ r_pc = "idle"
    /\ r_fn = "none"
    /\ r_target = <<>>
    /\ r_via = ""
    /\ r_text = <<>>
    /\ r_user_id = ""
    /\ r_events = <<>>
    /\ r_listing = <<>>
    /\ r_dms = <<>>
    /\ r_before = [users |-> [none |-> TRUE, d |-> <<>>],
                   users_map |-> [none |-> TRUE, d |-> EmptyDict],
                   conversations |-> EmptyDict, snapshots |-> EmptyDict]
    /\ r_result = NoRResult
    /\ r_raised = NoError
    /\ users_scans = <<>>
    /\ srv_users = <<>>
    /\ srv_channels = EmptyDict
    /\ snapshots_returned = EmptyDict
    /\ r_calls = <<>>

\* How many operations a client is asked for.
OpLimit(f) == IF f = "conversation_snapshot" THEN MaxSnapshots ELSE MaxOps

\* The call of an operation f on target t.
OpStart(f, t) ==
    /\ r_pc = "idle"
    /\ pc = "idle"
    /\ s_pc = "idle"
    /\ n_ops < OpLimit(f)
    /\ n_ops' = n_ops + 1
    /\ r_fn' = f
    /\ r_target' = t
    /\ r_before' = [users |-> users_cache, users_map |-> users_map_cache,
                    conversations |-> conversation_cache,
                    snapshots |-> conversation_snapshot_cache]
    /\ r_listing' = <<>>
    /\ r_dms' = <<>>
    /\ r_user_id' = ""
    /\ UNCHANGED <<hvars, tvars, scanlocals>>

\* The operation returns or raises res.
Done(res, evs) ==
    /\ r_pc' = "done"
    /\ r_result' = res
    /\ r_events' = evs

\* Mutant: the fallback turns every error into "No conversation found".
LeaveDm_AnyError(res, via, evs) ==
    Done(IF via = "fallback" /\ res.kind = "raise"
         THEN RRaise("NotFoundError", "no_conversation") ELSE res,
         Append(evs, Ev("exit", "resolve_dm_id", <<>>,
                        IF res.kind = "return" THEN "return" ELSE res.exc)))

\* resolve_dm_id returns or raises res to its caller: resolve.py 38-41 turn a
\* NotFoundError of the fallback into "No conversation found".
LeaveDm(res, via, evs) ==
    Done(IF via = "fallback" /\ res.exc = "NotFoundError"
         THEN RRaise("NotFoundError", "no_conversation") ELSE res,
         Append(evs, Ev("exit", "resolve_dm_id", <<>>,
                        IF res.kind = "return" THEN "return" ELSE res.exc)))

\* `raw.startswith("D")`
IsDmId(raw) == StartsWith(raw, <<"D">>)

\* resolve_dm_id(client, text), up to its call of resolve_user_id
EnterDm(text, via, evs) ==
    LET raw == Strip(text)
        evs2 == Append(evs, Ev("enter", "resolve_dm_id", text, ""))
    IN  /\ r_via' = via
        /\ r_text' = raw
        /\ IF IsDmId(raw) THEN LeaveDm(RReturn(Join(raw)), via, evs2)
           ELSE /\ r_pc' = "user"
                /\ r_events' = evs2
                /\ r_result' = NoRResult

ResolveConversationStart ==
    \E t \in Targets :
        /\ OpStart("resolve_conversation_id", t)
        /\ LET raw == Strip(t)
               needle == Lower(Strip(RemovePrefix(raw, <<"#">>)))
           IN  IF CONVERSATION_ID_RE(raw)
               THEN Done(RReturn(Join(raw)), <<>>) /\ r_via' = "" /\ r_text' = raw
               ELSE IF StartsWith(raw, <<"@">>) THEN EnterDm(raw, "at", <<>>)
               ELSE IF needle = <<>>
               THEN /\ Done(RRaise("NotFoundError", "empty_name"), <<>>)
                    /\ r_via' = ""
                    /\ r_text' = needle
               ELSE /\ r_pc' = "channels"
                    /\ r_via' = ""
                    /\ r_text' = needle
                    /\ r_events' = <<>>
                    /\ r_result' = NoRResult
        /\ r_raised' = NoError
        /\ UNCHANGED <<caches, conversation_cache, users_scans, srv_users, snapvars>>

\* client.find_conversations_by_name(needle, ...) and what follows it
ChannelScan ==
    /\ r_pc = "channels"
    /\ \E resps \in ChannelResponses :
         \E r \in {find_conversations_by_name(r_text, ResolverMaxPages,
                                              conversation_cache, resps)} :
         LET evs == r_events \o Requests("users.conversations", r.sent)
         IN  \E e \in ErrorsIf(r.kind = "raise") :
             /\ r_listing' = ServedPages(resps, r.sent)
             /\ conversation_cache' = r.cache
             /\ r_raised' = e
             /\ IF r.kind = "raise"
                THEN Done(Thrown(e), evs) /\ UNCHANGED <<r_via, r_text>>
                ELSE IF r.value = <<>> THEN EnterDm(Strip(r_target), "fallback", evs)
                ELSE Done(PickConversation(r.value), evs) /\ UNCHANGED <<r_via, r_text>>
    /\ UNCHANGED <<hvars, tvars, scanlocals, caches, n_ops, r_fn, r_target, r_user_id,
                   r_dms, r_before, users_scans, srv_users, snapvars>>

ResolveDmStart ==
    \E t \in Targets :
        /\ OpStart("resolve_dm_id", t)
        /\ EnterDm(t, "direct", <<>>)
        /\ r_raised' = NoError
        /\ UNCHANGED <<caches, conversation_cache, users_scans, srv_users, snapvars>>

\* resolve_user_id(client, raw) inside resolve_dm_id
UserStep ==
    /\ r_pc = "user"
    /\ \E resps \in UsersResponses :
         \E u \in {resolve_user_id(r_text, users_cache, resps)} :
         LET evs == r_events \o Requests("users.list", u.all.sent)
         IN  \E e \in ErrorsIf(u.all.kind = "raise") :
             /\ users_cache' = u.all.cache
             /\ ScansAfter(u.all)
             /\ r_raised' = e
             /\ IF u.res.kind = "return"
                THEN /\ r_pc' = "dms"
                     /\ r_user_id' = u.res.id
                     /\ r_events' = evs
                     /\ r_result' = NoRResult
                ELSE /\ LeaveDm(IF u.all.kind = "raise" THEN Thrown(e) ELSE u.res,
                                r_via, evs)
                     /\ UNCHANGED r_user_id
    /\ UNCHANGED <<hvars, tvars, svars, users_map_cache, conversation_snapshot_cache,
                   n_ops, r_fn, r_target, r_via, r_text, r_listing, r_dms, r_before,
                   snapvars>>

\* client.find_dm_by_user_id(user_id, max_pages=20) and what follows it
DmStep ==
    /\ r_pc = "dms"
    /\ \E resps \in DmResponses :
         \E r \in {find_dm_by_user_id(r_user_id, ResolverMaxPages,
                                      conversation_cache, resps)} :
         LET evs == r_events \o Requests("users.conversations", r.sent)
         IN  \E e \in ErrorsIf(r.kind = "raise") :
             /\ r_dms' = ServedPages(resps, r.sent)
             /\ conversation_cache' = r.cache
             /\ r_raised' = e
             /\ LeaveDm(IF r.kind = "raise" THEN Thrown(e)
                        ELSE IF r.value = <<>> THEN RRaise("NotFoundError", "no_dm")
                        ELSE IF r.value[1].id = ""
                        THEN RRaise("NotFoundError", "dm_missing_id")
                        ELSE RReturn(r.value[1].id),
                        r_via, evs)
    /\ UNCHANGED <<hvars, tvars, scanlocals, caches, n_ops, r_fn, r_target, r_via, r_text,
                   r_user_id, r_listing, r_before, users_scans, srv_users, snapvars>>

\* resolve_user_id(client, t) called on its own
ResolveUser ==
    \E t \in Targets, resps \in UsersResponses :
        /\ OpStart("resolve_user_id", t)
        /\ \E u \in {resolve_user_id(t, users_cache, resps)} :
           \E e \in ErrorsIf(u.all.kind = "raise") :
             /\ users_cache' = u.all.cache
             /\ ScansAfter(u.all)
             /\ r_events' = Requests("users.list", u.all.sent)
             /\ r_raised' = e
             /\ r_result' = IF u.all.kind = "raise" THEN Thrown(e) ELSE u.res
        /\ UNCHANGED <<r_pc, r_via, r_text, users_map_cache,
                       conversation_snapshot_cache, conversation_cache, snapvars>>

\* client.users_all()
UsersAll ==
    \E resps \in UsersResponses :
        /\ OpStart("users_all", <<>>)
        /\ \E a \in {users_all(users_cache, resps)} :
           \E e \in ErrorsIf(a.kind = "raise") :
             /\ users_cache' = a.cache
             /\ ScansAfter(a)
             /\ r_events' = Requests("users.list", a.sent)
             /\ r_raised' = e
             /\ r_result' = IF a.kind = "raise" THEN Thrown(e)
                            ELSE [RReturn("") EXCEPT !.users = a.users]
        /\ UNCHANGED <<r_pc, r_via, r_text, users_map_cache,
                       conversation_snapshot_cache, conversation_cache, snapvars>>

\* client.users_map()
UsersMap ==
    \E resps \in UsersResponses :
        /\ OpStart("users_map", <<>>)
        /\ \E a \in {IF users_map_cache.none THEN users_all(users_cache, resps)
                      ELSE NoScan(users_cache)} :
           \E m \in {IF users_map_cache.none THEN UsersById(a.users)
                      ELSE users_map_cache.d} :
           \E e \in ErrorsIf(a.kind = "raise") :
             /\ users_cache' = a.cache
             /\ ScansAfter(a)
             /\ users_map_cache' = IF a.kind = "raise" THEN users_map_cache
                                   ELSE [none |-> FALSE, d |-> m]
             /\ r_events' = Requests("users.list", a.sent)
             /\ r_raised' = e
             /\ r_result' = IF a.kind = "raise" THEN Thrown(e)
                            ELSE [RReturn("") EXCEPT !.map = m]
        /\ UNCHANGED <<r_pc, r_via, r_text, conversation_snapshot_cache,
                       conversation_cache, snapvars>>

\* The server's directory changes between two operations, for the first
\* time since the client fetched it.
DirectoryChanges ==
    /\ r_pc = "idle"
    /\ n_ops < MaxOps
    /\ ~users_cache.none
    /\ srv_users = users_cache.d
    /\ \E d \in Directories \ {srv_users} : srv_users' = d
    /\ UNCHANGED <<hvars, tvars, svars, caches, n_ops, r_pc, r_fn, r_target, r_via, r_text,
                   r_user_id, r_events, r_listing, r_dms, r_before, r_result,
                   r_raised, users_scans, snapvars>>

(***************************************************************************)
(* conversation_snapshot (client.py 332-373, 457-463).  A conversation is  *)
(* the dict the server gave: a key it lacks is outside its DOMAIN.  Its    *)
(* keys here: id, name, latest, unread_count_display, unread_count (-1 is  *)
(* None) and last_read.                                                    *)
(***************************************************************************)
\* A JSON value where a timestamp is expected: None (or no such key), a
\* string, or an integer too large for a float (more than 308 digits).
TsNone == [t |-> "none", s |-> <<>>]
TsStr(s) == [t |-> "str", s |-> s]
TsHuge == [t |-> "int", s |-> <<>>]

\* The value of `latest`: a message object with its ts, or any other value.
Message(ts) == [dict |-> TRUE, ts |-> ts]
Bare(v) == [dict |-> FALSE, ts |-> v]

\* `if not latest_ts`
Truthy(v) == v.t = "int" \/ (v.t = "str" /\ v.s # <<>>)

\* {} : no conversation
NoChannel == EmptyDict

T1002 == TsStr(<<"1", "0", "0", ".", "2">>)
T205 == TsStr(<<"2", "0", ".", "5">>)

\* The channel objects conversations.info may answer with for id: with a
\* latest message and a display count; with last_read only; with a latest
\* object that has no ts and a plain count; with a bare string as latest
\* and a last_read that is no number; with a last_read too large for a
\* float; and one without an id.
InfoChannels(id) ==
    {("id" :> id) @@ ("latest" :> Message(T1002)) @@ ("unread_count_display" :> 2),
     ("id" :> id) @@ ("last_read" :> T205),
     ("id" :> id) @@ ("latest" :> Message(TsNone)) @@ ("unread_count" :> 3),
     ("id" :> id) @@ ("latest" :> Bare(T1002)) @@ ("last_read" :> TsStr(<<"x">>)),
     ("id" :> id) @@ ("latest" :> Message(T1002)) @@ ("last_read" :> TsHuge),
     ("latest" :> Message(T205)) @@ ("last_read" :> T1002)}

\* The channel_id argument
ConversationIds == {<<"C", "1">>, <<"C", "2">>}

\* What conversations.info answers: an error, a payload without a channel,
\* or a channel.
InfoResponses(id) ==
    {[ok |-> FALSE, channel |-> NoChannel]} \cup
    {[ok |-> TRUE, channel |-> ch] : ch \in InfoChannels(id) \cup {NoChannel}}

\* conversation_info(channel_id), the call answered
conversation_info(id, cache, resp) ==
    LET channel == IF resp.channel # NoChannel THEN resp.channel
                   ELSE Get(cache, id, NoChannel)
    IN  [channel |-> channel,
         cache |-> IF Get(channel, "id", "") # "" THEN CachePut(cache, channel)
                   ELSE cache]

(***************************************************************************)
(* float(value) of a timestamp: [ok, exc, num, scale] with the value       *)
(* num / 10^scale.  Strings are decimal literals (sign, digits, at most    *)
(* one point); anything else in them is a ValueError.                      *)
(***************************************************************************)
RECURSIVE Pow10(_)
Pow10(n) == IF n = 0 THEN 1 ELSE 10 * Pow10(n - 1)

FloatError(exc) == [ok |-> FALSE, exc |-> exc, num |-> 0, scale |-> 0]

\* The index of the first "." of s, or Len(s) + 1
PointAt(s) ==
    IF \E i \in 1..Len(s) : s[i] = "."
    THEN CHOOSE i \in 1..Len(s) : s[i] = "." /\ \A j \in 1..(i - 1) : s[j] # "."
    ELSE Len(s) + 1

PyFloat(v) ==
    IF v.t = "none" THEN FloatError("TypeError")
    ELSE IF v.t = "int" THEN FloatError("OverflowError")
    ELSE LET t == Strip(v.s)
             signed == t # <<>> /\ Head(t) \in {"+", "-"}
             body == IF signed THEN Tail(t) ELSE t
             p == PointAt(body)
             whole == SubSeq(body, 1, p - 1)
             frac == SubSeq(body, p + 1, Len(body))
             digits == whole \o frac
         IN  IF digits # <<>> /\ \A i \in 1..Len(digits) : digits[i] \in DigitChars
             THEN [ok |-> TRUE, exc |-> "",
                   num |-> IF signed /\ Head(t) = "-" THEN 0 - DigitsValue(digits, 0)
                           ELSE DigitsValue(digits, 0),
                   scale |-> Len(frac)]
             ELSE FloatError("ValueError")

\* float(a) > float(b)
FloatGreater(a, b) == a.num * Pow10(b.scale) > b.num * Pow10(a.scale)

\* _unread_fallback(last_read, latest_ts): [exc, unread]; TypeError and
\* ValueError are caught, any other exception of float() leaves the function.
unread_fallback(last_read, latest_ts) ==
    LET a == PyFloat(latest_ts)
        b == PyFloat(last_read)
        first == IF ~a.ok THEN a ELSE b
    IN  IF ~first.ok
        THEN [exc |-> IF first.exc \in {"TypeError", "ValueError"} THEN "" ELSE first.exc,
              unread |-> 0]
        ELSE [exc |-> "", unread |-> IF FloatGreater(a, b) THEN 1 ELSE 0]

\* client.py 350-351: latest_ts of the base info
latest_ts_of(snapshot) ==
    LET latest == Get(snapshot, "latest", Bare(TsNone))
    IN  IF latest.dict THEN latest.ts ELSE TsNone

\* Mutant: the history is asked for whatever the base info holds.
AsksHistory_Always(base) == TRUE

\* `if not latest_ts`
AsksHistory(base) == ~Truthy(latest_ts_of(base))

\* f with value v at key k
Put(f, k, v) == [x \in DOMAIN f \cup {k} |-> IF x = k THEN v ELSE f[x]]

\* client.py 363-365: unread_count_display, else unread_count (-1: None)
Counted(snapshot) ==
    IF Get(snapshot, "unread_count_display", -1) # -1
    THEN snapshot["unread_count_display"]
    ELSE Get(snapshot, "unread_count", -1)

\* client.py 347-370: the snapshot made of base and of the history, or the
\* exception that leaves _unread_fallback
Snapshot_of(id, base, history) ==
    LET s1 == SetDefault(base, "id", id)
        filled == AsksHistory(s1) /\ history # <<>>
        s2 == IF filled THEN Put(s1, "latest", history[1]) ELSE s1
        latest_ts == IF filled THEN history[1].ts ELSE latest_ts_of(s1)
        fallback == unread_fallback(Get(s2, "last_read", TsNone), latest_ts)
    IN  IF Counted(s2) # -1 THEN [exc |-> "", snapshot |-> s2]
        ELSE [exc |-> fallback.exc,
              snapshot |-> Put(Put(s2, "unread_count", fallback.unread),
                               "unread_count_display", fallback.unread)]

(***************************************************************************)
(* conversation_history (client.py 375-410) run to its end against the     *)
(* responses resps of the server: [messages, next_cursor, has_more] each,  *)
(* and the request that finds none left fails.  It gives [kind, messages,  *)
(* sent], sent being the limit and cursor of every request.                *)
(***************************************************************************)
HistoryBatch == 200

HistoryEnd(kind, messages, sent) == [kind |-> kind, messages |-> messages, sent |-> sent]

\* Mutant: return messages, without the slice.
Take_All(messages, limit) == messages

\* messages[:limit]
Take(messages, limit) == SubSeq(messages, 1, Min(limit, Len(messages)))

RECURSIVE HistoryLoop(_, _, _, _, _)
HistoryLoop(limit, resps, messages, cur, sent) ==
    IF Len(messages) >= limit THEN HistoryEnd("return", Take(messages, limit), sent)
    ELSE LET asked == Append(sent, [limit |-> Min(HistoryBatch, limit - Len(messages)),
                                    cursor |-> cur])
         IN  IF resps = <<>> THEN HistoryEnd("raise", <<>>, asked)
             ELSE LET batch == Head(resps).messages
                      all == messages \o batch
                  IN  IF (Head(resps).next_cursor = "" /\ ~Head(resps).has_more)
                         \/ batch = <<>>
                      THEN HistoryEnd("return", Take(all, limit), asked)
                      ELSE HistoryLoop(limit, Tail(resps), all,
                                       Head(resps).next_cursor, asked)

conversation_history(limit, resps) == HistoryLoop(limit, resps, <<>>, "", <<>>)

\* What conversations.history answers a snapshot, as often as it is asked:
\* an error; no message, though more are announced; two messages, though
\* one was asked for, and more announced.
HistoryAnswers ==
    {CallRaises,
     [i \in 1..2 |-> [messages |-> <<>>, next_cursor |-> "a", has_more |-> TRUE]],
     [i \in 1..2 |-> [messages |-> <<Message(T1002), Message(T205)>>,
                      next_cursor |-> "a", has_more |-> TRUE]]}

\* Mutant: the snapshot cache is never read.
SnapshotCached_Never(cache, id) == FALSE

\* `cached = self._conversation_snapshot_cache.get(channel_id)`, `if cached:`
SnapshotCached(cache, id) == id \in DOMAIN cache

\* The answers the server is asked for: none when the snapshot is cached, no
\* history when the conversation has a latest message or info failed.
InfoAsked(id) ==
    IF SnapshotCached(conversation_snapshot_cache, id)
    THEN {[ok |-> FALSE, channel |-> NoChannel]} ELSE InfoResponses(id)
HistoryAsked(id, info) ==
    IF SnapshotCached(conversation_snapshot_cache, id) \/ ~info.ok
         \/ ~AsksHistory(conversation_info(id, conversation_cache, info).channel)
    THEN {CallRaises} ELSE HistoryAnswers

\* One entry of r_calls: a request and what answered it.
Call(m, limit, cur, ok, channel, items) ==
    [method |-> m, limit |-> limit, cursor |-> cur, ok |-> ok, channel |-> channel,
     items |-> items]

InfoCall(info) == Call("conversations.info", 0, "", info.ok, info.channel, <<>>)

HistoryCalls(sent, resps) ==
    [i \in 1..Len(sent) |->
        Call("conversations.history", sent[i].limit, sent[i].cursor, i <= Len(resps),
             NoChannel, IF i <= Len(resps) THEN resps[i].messages ELSE <<>>)]

\* conversation_snapshot(channel_id) against the answers info and resps:
\* the result, the requests and the caches it leaves.
conversation_snapshot(id, info, resps) ==
    LET base == conversation_info(id, conversation_cache, info)
        h == IF AsksHistory(base.channel) THEN conversation_history(1, resps)
             ELSE HistoryEnd("return", <<>>, <<>>)
        s == Snapshot_of(id, base.channel, h.messages)
        calls == <<InfoCall(info)>> \o HistoryCalls(h.sent, resps)
        evs == Requests("conversations.info", <<"">>)
                 \o Requests("conversations.history", h.sent)
    IN  IF SnapshotCached(conversation_snapshot_cache, id)
        THEN [res |-> [RReturn("") EXCEPT !.snapshot = conversation_snapshot_cache[id]],
              evs |-> <<>>, calls |-> <<>>, cache |-> conversation_cache,
              snapshots |-> conversation_snapshot_cache]
        ELSE IF ~info.ok
        THEN [res |-> CallError, evs |-> Requests("conversations.info", <<"">>),
              calls |-> <<InfoCall(info)>>, cache |-> conversation_cache,
              snapshots |-> conversation_snapshot_cache]
        ELSE IF h.kind = "raise"
        THEN [res |-> CallError, evs |-> evs, calls |-> calls, cache |-> base.cache,
              snapshots |-> conversation_snapshot_cache]
        ELSE IF s.exc # ""
        THEN [res |-> RRaise(s.exc, "float"), evs |-> evs, calls |-> calls,
              cache |-> base.cache, snapshots |-> conversation_snapshot_cache]
        ELSE [res |-> [RReturn("") EXCEPT !.snapshot = s.snapshot],
              evs |-> evs, calls |-> calls, cache |-> base.cache,
              snapshots |-> Put(conversation_snapshot_cache, id, s.snapshot)]

ConversationSnapshot ==
    \E t \in ConversationIds :
      /\ OpStart("conversation_snapshot", t)
      /\ \E info \in InfoAsked(Join(t)) : \E resps \in HistoryAsked(Join(t), info) :
          \E c \in {conversation_snapshot(Join(t), info, resps)} :
            /\ conversation_cache' = c.cache
            /\ conversation_snapshot_cache' = c.snapshots
            /\ r_events' = c.evs
            /\ r_calls' = c.calls
            /\ r_result' = c.res
            /\ srv_channels' =
                 IF c.evs # <<>> /\ info.ok /\ info.channel # NoChannel
                 THEN Put(srv_channels, Join(t), info.channel) ELSE srv_channels
            /\ snapshots_returned' =
                 IF c.res.kind = "return"
                 THEN Put(snapshots_returned, Join(t),
                          IF Join(t) \in DOMAIN snapshots_returned
                          THEN Append(snapshots_returned[Join(t)], c.res.snapshot)
                          ELSE <<c.res.snapshot>>)
                 ELSE snapshots_returned
      /\ UNCHANGED <<r_pc, r_via, r_text, r_raised, users_cache,
                     users_map_cache, users_scans, srv_users>>

\* What a conversation of the server becomes: read, or with a new message.
ChangedChannels(id) ==
    {("id" :> id) @@ ("last_read" :> T205),
     ("id" :> id) @@ ("latest" :> Message(T1002)) @@ ("unread_count_display" :> 2)}

\* The server's conversation changes after its snapshot was taken.
ConversationChanges ==
    /\ r_pc = "idle"
    /\ n_ops < MaxSnapshots
    /\ \E id \in DOMAIN conversation_snapshot_cache \cap DOMAIN srv_channels :
         /\ id \in DOMAIN conversation_cache
         /\ srv_channels[id] = conversation_cache[id]
         /\ \E ch \in ChangedChannels(id) \ {srv_channels[id]} :
              srv_channels' = Put(srv_channels, id, ch)
    /\ UNCHANGED <<hvars, tvars, svars, caches, rvars, snapshots_returned, r_calls>>

(***************************************************************************)
(* conversations_list (client.py 195-228) run to its end, its ceilings     *)
(* beyond what the server lists (chat.py 64-71: at least 120 items and 8   *)
(* pages).  The conversations are cached after the scan.                   *)
(***************************************************************************)
Listed(id) == ("id" :> id) @@ ("name" :> <<"o", "p", "s">>) @@ ("last_read" :> T205)
Unlisted == "name" :> <<"o", "p", "s">>

\* One page; two pages; a first page, and the second request fails; the
\* first request fails.
ConversationListings ==
    {<<[items |-> <<Listed("C1"), Unlisted>>, next_cursor |-> ""]>>,
     <<[items |-> <<Listed("C1")>>, next_cursor |-> "1"],
       [items |-> <<Listed("C2")>>, next_cursor |-> ""]>>,
     <<[items |-> <<Listed("C1")>>, next_cursor |-> "1"]>>,
     CallRaises}

\* Mutant: the conversations are cached page by page, as they are read.
conversations_list_Eager(cache, resps) ==
    LET r == paginate(resps, -1, ScanLocals(cache))
        page(i) == IF i <= Min(Len(r.sent), Len(resps)) THEN resps[i].items ELSE <<>>
    IN  ScanEnd(r.kind, r.value, CachePutAll(CachePutAll(cache, page(1)), page(2)),
                r.sent)

conversations_list(cache, resps) ==
    LET r == paginate(resps, -1, ScanLocals(cache)) IN
    IF r.kind = "raise" THEN ScanEnd("raise", <<>>, cache, r.sent)
    ELSE ScanEnd("return", r.value, CachePutAll(cache, r.value), r.sent)

ListCalls(sent, resps) ==
    [i \in 1..Len(sent) |->
        Call("users.conversations", 200, sent[i], i <= Len(resps), NoChannel,
             IF i <= Len(resps) THEN resps[i].items ELSE <<>>)]

\* client.conversations_list(types, exclude_archived=True, ...)
ListConversations ==
    \E resps \in ConversationListings :
        LET r == conversations_list(conversation_cache, resps) IN
        /\ OpStart("conversations_list", <<>>)
        /\ conversation_cache' = r.cache
        /\ r_events' = Requests("users.conversations", r.sent)
        /\ r_calls' = ListCalls(r.sent, resps)
        /\ r_result' = IF r.kind = "raise" THEN CallError
                       ELSE [RReturn("") EXCEPT !.users = r.value]
        /\ UNCHANGED <<r_pc, r_via, r_text, r_raised, caches, users_scans,
                       srv_users, srv_channels, snapshots_returned>>

\* client.conversation_info(channel_id); the result's snapshot field holds
\* the conversation returned.
ConversationInfo ==
    \E t \in ConversationIds : \E info \in InfoResponses(Join(t)) :
        LET c == conversation_info(Join(t), conversation_cache, info) IN
        /\ OpStart("conversation_info", t)
        /\ conversation_cache' = IF info.ok THEN c.cache ELSE conversation_cache
        /\ r_events' = Requests("conversations.info", <<"">>)
        /\ r_calls' = <<InfoCall(info)>>
        /\ r_result' = IF info.ok THEN [RReturn("") EXCEPT !.snapshot = c.channel]
                       ELSE CallError
        /\ UNCHANGED <<r_pc, r_via, r_text, r_raised, caches, users_scans,
                       srv_users, srv_channels, snapshots_returned>>

(***************************************************************************)
(* One run of the program: run() sets the help defaults, main() decides    *)
(* whether settings are loaded (app.py 41-72, 89-122) and load_settings    *)
(* validates them (config.py 37-93); then the command Click dispatched     *)
(* runs.  Strings the code inspects are sequences of characters.           *)
(***************************************************************************)
Prog == <<"s", "l", "a", "c", "k">>
AuthTok == <<"a", "u", "t", "h">>
LogoutTok == <<"l", "o", "g", "o", "u", "t">>
ChatTok == <<"c", "h", "a", "t">>
ListTok == <<"l", "i", "s", "t">>
MeTok == <<"m", "e">>
FieldsOpt == <<"-", "-", "f", "i", "e", "l", "d", "s">>
VerboseOpt == <<"-", "-", "v", "e", "r", "b", "o", "s", "e">>
HelpOpt == <<"-", "-", "h", "e", "l", "p">>
ShortHelpOpt == <<"-", "h">>
EndOfOptions == <<"-", "-">>

\* Command lines, each with the command Click dispatches for it (--fields
\* takes the token after it as its value) and whether Click shows the help
\* of that command instead of running it.
Argvs ==
    {[tokens |-> <<Prog, ChatTok, ListTok>>, command |-> "chat list", help |-> FALSE],
     [tokens |-> <<Prog, VerboseOpt, MeTok>>, command |-> "me", help |-> FALSE],
     [tokens |-> <<Prog, FieldsOpt, AuthTok, ChatTok, ListTok>>,
      command |-> "chat list", help |-> FALSE],
     [tokens |-> <<Prog, AuthTok, LogoutTok>>, command |-> "auth logout", help |-> FALSE],
     [tokens |-> <<Prog, EndOfOptions, AuthTok, LogoutTok>>,
      command |-> "auth logout", help |-> FALSE],
     [tokens |-> <<Prog, ChatTok, ListTok, HelpOpt>>, command |-> "chat list", help |-> TRUE]}

\* A variable that is not set, and the environments and env files of a run.
Unset == <<"unset">>
EnvWith(name, v) == IF v = Unset THEN EmptyDict ELSE name :> v
Environ(w, t, c) ==
    EnvWith("SLACK_WORKSPACE", w) @@ EnvWith("TOKEN", t) @@ EnvWith("D_COOKIE", c)
WorkspaceValues ==
    {Unset, <<" ">>, <<"a", "c", "m", "e">>, <<" ", "a", "-", "1", " ">>,
     <<"-", "a">>, <<"A", "c", "m", "e">>, <<"a", " ", "b">>}
TokenValues == {Unset, <<" ">>, <<"x", "o", "x", "c">>}
CookieValues == {Unset, <<"d">>}
EnvFiles == {EmptyDict, Environ(<<"a", "c", "m", "e">>, <<"x", "o", "x", "c">>, <<"d">>)}
Envs ==
    {[environ |-> Environ(w, t, c), file |-> f, override |-> o] :
        w \in WorkspaceValues, t \in TokenValues, c \in CookieValues,
        f \in EnvFiles, o \in {"unset", "missing"}}

\* _first_resource_arg(argv): [none, s]
RECURSIVE FirstNonOption(_)
FirstNonOption(tokens) ==
    IF tokens = <<>> THEN [none |-> TRUE, s |-> <<>>]
    ELSE IF Head(tokens) = EndOfOptions THEN [none |-> TRUE, s |-> <<>>]
    ELSE IF StartsWith(Head(tokens), <<"-">>) THEN FirstNonOption(Tail(tokens))
    ELSE [none |-> FALSE, s |-> Head(tokens)]

first_resource_arg(argv) == FirstNonOption(Tail(argv))

\* WORKSPACE_RE.match(s): ^[a-z0-9][a-z0-9-]*$
LowerLetters ==
    {"a", "b", "c", "d", "e", "f", "g", "h", "i", "j", "k", "l", "m",
     "n", "o", "p", "q", "r", "s", "t", "u", "v", "w", "x", "y", "z"}
WORKSPACE_RE(s) ==
    /\ s # <<>>
    /\ s[1] \in LowerLetters \cup DigitChars
    /\ \A i \in 2..Len(s) : s[i] \in LowerLetters \cup DigitChars \cup {"-"}

\* os.environ.setdefault for the three variables when help is asked for
\* (app.py 92-95).
HelpAsked(tokens) == \E i \in 1..Len(tokens) : tokens[i] \in {HelpOpt, ShortHelpOpt}
HelpDefaults(tokens, environ) ==
    IF HelpAsked(tokens)
    THEN environ @@ Environ(<<"w">>, <<"t">>, <<"c">>)
    ELSE environ

\* load_dotenv(override=False): the file's values for the variables not set.
LoadDotenv(environ, file) == environ @@ file

\* _required(name): [exc, msg, value]
required(environ, name) ==
    LET value == Strip(Get(environ, name, <<>>))
    IN  IF value # <<>> THEN [exc |-> "", msg |-> "", value |-> value]
        ELSE [exc |-> "ConfigError", msg |-> "missing " \o name, value |-> <<>>]

\* load_settings(): [exc, msg]
load_settings(environ, file, override) ==
    IF override = "missing" THEN [exc |-> "ConfigError", msg |-> "env file"]
    ELSE LET env == LoadDotenv(environ, file)
             workspace == required(env, "SLACK_WORKSPACE")
             token == required(env, "TOKEN")
             d_cookie == required(env, "D_COOKIE")
         IN  IF workspace.exc # "" THEN [exc |-> workspace.exc, msg |-> workspace.msg]
             ELSE IF ~WORKSPACE_RE(workspace.value)
             THEN [exc |-> "ConfigError", msg |-> "slug"]
             ELSE IF token.exc # "" THEN [exc |-> token.exc, msg |-> token.msg]
             ELSE IF d_cookie.exc # "" THEN [exc |-> d_cookie.exc, msg |-> d_cookie.msg]
             ELSE [exc |-> "", msg |-> ""]

\* main(): [exc, msg, client]
main(argv, env) ==
    LET first == first_resource_arg(argv.tokens)
        auth_mode == ~first.none /\ first.s = AuthTok
        settings == load_settings(HelpDefaults(argv.tokens, env.environ),
                                  env.file, env.override)
    IN  IF auth_mode THEN [exc |-> "", msg |-> "", client |-> FALSE]
        ELSE [exc |-> settings.exc, msg |-> settings.msg, client |-> settings.exc = ""]

AInit ==
    /\ a_pc = "idle"
    /\ a_argv = [tokens |-> <<>>, command |-> "", help |-> FALSE]
    /\ a_env = [environ |-> EmptyDict, file |-> EmptyDict, override |-> "unset"]
    /\ a_client = FALSE
    /\ a_calls = 0
    /\ a_result = NoError

\* run() up to the return of main().
RunMain ==
    /\ a_pc = "idle"
    /\ \E argv \in Argvs, env \in Envs :
         LET m == main(argv, env)
         IN  /\ a_argv' = argv
             /\ a_env' = env
             /\ a_client' = m.client
             /\ a_pc' = IF m.exc = "" THEN "command" ELSE "done"
             /\ a_result' = [exc |-> m.exc, msg |-> m.msg]
    /\ UNCHANGED <<tvars, svars, cvars, pvars, a_calls>>

\* The command runs: Click shows its help, or `auth logout` removes the
\* credentials file, or the command makes its first call on app.client
\* (me.py 17, chat.py 66), which is None when main() took the run for an
\* auth command.
RunCommand ==
    /\ a_pc = "command"
    /\ a_pc' = "done"
    /\ IF a_argv.help \/ a_argv.command = "auth logout"
       THEN UNCHANGED <<a_calls, a_result>>
       ELSE IF ~a_client
       THEN /\ a_result' = [exc |-> "AttributeError", msg |-> "NoneType"]
            /\ UNCHANGED a_calls
       ELSE /\ a_calls' = a_calls + 1
            /\ \E e \in TransportErrors \cup {NoError} : a_result' = e
    /\ UNCHANGED <<tvars, svars, cvars, pvars, a_argv, a_env, a_client>>

ANext == RunMain \/ RunCommand

PInit ==
    /\ p_fn = "none"
    /\ p_in = <<>>
    /\ p_out = <<>>

(***************************************************************************)
(* conversation_history (client.py 375-410) on its own, against whatever   *)
(* conversations.history may answer: up to two messages a page, any next   *)
(* cursor, has_more set or not.                                            *)
(***************************************************************************)
MaxHistoryLimit == 4
MaxHistoryPages == 3

HistoryCursors == {"", "a", "b"}
HistoryPage(n, cur, more) ==
    [messages |-> SubSeq(<<Message(T1002), Message(T205)>>, 1, n),
     next_cursor |-> cur, has_more |-> more]
HistoryPages ==
    {HistoryPage(n, cur, more) : n \in 0..2, cur \in HistoryCursors, more \in BOOLEAN}
HistoryServers == UNION {[1..n -> HistoryPages] : n \in 0..MaxHistoryPages}

\* The limit argument: small ones, and two above the batch size of 200.
HistoryLimits == (1..MaxHistoryLimit) \cup {HistoryBatch + 1, HistoryBatch + 50}

\* client.conversation_history(channel_id, limit=limit, oldest=None, latest=None)
ConversationHistory ==
    /\ p_fn = "none"
    /\ \E limit \in HistoryLimits, resps \in HistoryServers :
         /\ p_fn' = "conversation_history"
         /\ p_in' = [limit |-> limit, resps |-> resps]
         /\ p_out' = conversation_history(limit, resps)
    /\ UNCHANGED <<tvars, svars, cvars, appvars>>

(***************************************************************************)
(* normalize.py.  A message, a block and a file are dicts; a JSON string   *)
(* is TsStr(characters), None is TsNone; a value that may or may not be an *)
(* object is Obj(dict) or NotObj; sizes and counts are integers, -1 for    *)
(* None.  Texts the code measures, strips or renders are sequences of      *)
(* characters; the paperclip sign is one character.                        *)
(***************************************************************************)
Obj(d) == [dict |-> TRUE, d |-> d]
NotObj == [dict |-> FALSE, d |-> EmptyDict]

Paperclip == "U+1F4CE"
NewLine == "\n"

\* `v or default`, for a string value v
StrOr(v, default) == IF v.t = "str" /\ v.s # <<>> THEN v.s ELSE default

\* str(n) for an integer n >= 0
RECURSIVE IntChars(_)
IntChars(n) ==
    LET digit == <<"0", "1", "2", "3", "4", "5", "6", "7", "8", "9">>[(n % 10) + 1]
    IN  IF n < 10 THEN <<digit>> ELSE Append(IntChars(n \div 10), digit)

\* The integer nearest to n / d, the even one of two nearest: what the
\* formats .0f and .1f round to.
RoundHalfEven(n, d) ==
    LET q == n \div d
        r == n % d
    IN  IF 2 * r < d THEN q
        ELSE IF 2 * r > d THEN q + 1
        ELSE IF q % 2 = 0 THEN q ELSE q + 1

human_bytes_units == <<<<"B">>, <<"K", "B">>, <<"M", "B">>, <<"G", "B">>, <<"T", "B">>>>

\* The loop of _human_bytes: value is size / d
RECURSIVE HumanBytesLoop(_, _, _)
HumanBytesLoop(size, d, index) ==
    IF size >= 1024 * d /\ index < Len(human_bytes_units) - 1
    THEN HumanBytesLoop(size, 1024 * d, index + 1)
    ELSE [d |-> d, index |-> index]

\* _human_bytes(size), for an integer size >= 0
human_bytes(size) ==
    LET v == HumanBytesLoop(size, 1, 0)
        unit == <<" ">> \o human_bytes_units[v.index + 1]
        tenths == RoundHalfEven(10 * size, v.d)
    IN  IF v.index = 0 THEN IntChars(size) \o unit
        ELSE IF size >= 10 * v.d THEN IntChars(RoundHalfEven(size, v.d)) \o unit
        ELSE IntChars(tenths \div 10) \o <<".">> \o IntChars(tenths % 10) \o unit

\* _format_file_fallback(files); files is a list, or <<>> for anything else
format_file_fallback(files) ==
    IF files = <<>> THEN <<>>
    ELSE LET first == IF files[1].dict THEN files[1].d ELSE EmptyDict
             title == StrOr(Get(first, "title", TsNone),
                            StrOr(Get(first, "name", TsNone), <<"f", "i", "l", "e">>))
             pretty_type == StrOr(Get(first, "pretty_type", TsNone),
                                  StrOr(Get(first, "filetype", TsNone),
                                        <<"f", "i", "l", "e">>))
             size == Get(first, "size", -1)
             size_label == IF size # -1 THEN human_bytes(size) ELSE <<>>
             details == IF size_label # <<>>
                        THEN pretty_type \o <<",", " ">> \o size_label
                        ELSE pretty_type
             extra_count == Max(Len(files) - 1, 0)
             plural == IF extra_count # 1 THEN <<"s">> ELSE <<>>
             extra_suffix ==
                 IF extra_count # 0
                 THEN <<" ", "+">> \o IntChars(extra_count)
                        \o <<" ", "m", "o", "r", "e", " ", "f", "i", "l", "e">> \o plural
                 ELSE <<>>
         IN  <<Paperclip, " ">> \o title \o <<" ", "(">> \o details \o <<")">>
               \o extra_suffix

\* sep.join(pieces)
RECURSIVE JoinWith(_, _)
JoinWith(pieces, sep) ==
    IF pieces = <<>> THEN <<>>
    ELSE IF Len(pieces) = 1 THEN pieces[1]
    ELSE pieces[1] \o sep \o JoinWith(Tail(pieces), sep)

\* The texts of the fields of a block that are objects with a string text.
RECURSIVE FieldTexts(_)
FieldTexts(fields) ==
    IF fields = <<>> THEN <<>>
    ELSE LET f == Head(fields)
             t == Get(f.d, "text", TsNone)
         IN  IF f.dict /\ t.t = "str" THEN <<t.s>> \o FieldTexts(Tail(fields))
             ELSE FieldTexts(Tail(fields))

\* _extract_block_text(block)
extract_block_text(block) ==
    LET text_node == Get(block, "text", NotObj)
        value == Get(text_node.d, "text", TsNone)
    IN  IF text_node.dict /\ value.t = "str" THEN value.s
        ELSE JoinWith(FieldTexts(Get(block, "fields", <<>>)), <<" ">>)

\* The loop of extract_message_text over the blocks: block_text
RECURSIVE BlockTexts(_)
BlockTexts(blocks) ==
    IF blocks = <<>> THEN <<>>
    ELSE LET maybe_text == extract_block_text(Head(blocks))
         IN  IF maybe_text # <<>> THEN <<maybe_text>> \o BlockTexts(Tail(blocks))
             ELSE BlockTexts(Tail(blocks))

\* Mutant: the attachment line follows the plain text only.
extract_message_text_TextOnly(message) ==
    LET attachment_preview == format_file_fallback(Get(message, "files", <<>>))
        text == Get(message, "text", TsNone)
        block_text == BlockTexts(Get(message, "blocks", <<>>))
    IN  IF text.t = "str" /\ Strip(text.s) # <<>>
        THEN IF attachment_preview # <<>>
             THEN text.s \o <<NewLine>> \o attachment_preview ELSE text.s
        ELSE IF block_text # <<>> THEN JoinWith(block_text, <<NewLine>>)
        ELSE attachment_preview

\* extract_message_text(message)
extract_message_text(message) ==
    LET attachment_preview == format_file_fallback(Get(message, "files", <<>>))
        text == Get(message, "text", TsNone)
        block_text == BlockTexts(Get(message, "blocks", <<>>))
        body == JoinWith(block_text, <<NewLine>>)
    IN  IF text.t = "str" /\ Strip(text.s) # <<>>
        THEN IF attachment_preview # <<>>
             THEN text.s \o <<NewLine>> \o attachment_preview ELSE text.s
        ELSE IF block_text # <<>>
        THEN IF attachment_preview # <<>>
             THEN body \o <<NewLine>> \o attachment_preview ELSE body
        ELSE attachment_preview

\* The messages extract_message_text is applied to.
Hi == <<"h", "i">>
TextValues == {TsNone, TsStr(<<>>), TsStr(<<" ">>), TsStr(Hi)}
TextBlock(s) == "text" :> Obj("text" :> TsStr(s))
FieldsBlock == "fields" :> <<Obj("text" :> TsStr(<<"f">>)), NotObj, Obj("text" :> TsStr(<<"g">>))>>
BlockLists ==
    {<<>>, <<TextBlock(<<>>)>>, <<TextBlock(<<"b">>)>>,
     <<TextBlock(<<"b">>), FieldsBlock>>,
     <<("text" :> Obj("text" :> TsStr(<<>>))) @@ FieldsBlock>>}
FileSizes == {-1, 0, 1023, 1024, 1280, 1536, 10239, 10240, 2097152, 10485760}
Png == TsStr(<<"p", "n", "g">>)
File(size) == Obj(("name" :> TsStr(<<"a">>)) @@ ("filetype" :> Png) @@ ("size" :> size))
FileLists ==
    {<<Obj(IF size = -1 THEN EmptyDict ELSE "size" :> size)>> : size \in FileSizes}
    \cup {<<>>, <<NotObj>>, <<File(2097152), File(0)>>,
          <<Obj(("title" :> TsStr(<<"t">>)) @@ ("pretty_type" :> Png)), NotObj, File(0)>>}
With(key, present, v) == IF present THEN key :> v ELSE EmptyDict
TextMessages ==
    {With("text", text # TsNone, text) @@ With("blocks", blocks # <<>>, blocks)
        @@ With("files", files # <<>>, files) :
        text \in TextValues, blocks \in BlockLists, files \in FileLists}
    \cup {("text" :> TsNone) @@ ("blocks" :> <<>>) @@ ("files" :> <<>>)}

\* extract_message_text(message)
ExtractMessageText ==
    /\ p_fn = "none"
    /\ \E message \in TextMessages :
         /\ p_fn' = "extract_message_text"
         /\ p_in' = message
         /\ p_out' = extract_message_text(message)
    /\ UNCHANGED <<tvars, svars, cvars, appvars>>

\* The users_map the messages are labelled with: user id -> name
LabelUsers == ("U1" :> "ann") @@ ("U2" :> "")

\* user_label(user_id, users_map); "" is None
user_label(user_id, users_map) ==
    IF user_id = "" THEN "@unknown"
    ELSE IF user_id \notin DOMAIN users_map THEN "@" \o user_id
    ELSE "@" \o (IF users_map[user_id] # "" THEN users_map[user_id] ELSE user_id)

\* int(message.get("reply_count") or 0), for a count or None (-1)
ReplyCount(message) ==
    LET v == Get(message, "reply_count", -1) IN IF v = -1 THEN 0 ELSE v

\* Mutant: every message that heads its thread is a parent.
IsThreadParent_AnyCount(reply_count, ts, thread_ts) == ts = thread_ts

\* bool(reply_count and ts == thread_ts)
IsThreadParent(reply_count, ts, thread_ts) == reply_count # 0 /\ ts = thread_ts

\* normalize_message(message, chat_id, users_map)
normalize_message(message, chat_id, users_map) ==
    LET ts == StrOr(Get(message, "ts", TsNone), <<>>)
        thread_ts == StrOr(Get(message, "thread_ts", TsNone), ts)
        reply_count == ReplyCount(message)
        author_id == Get(message, "user", "")
        bot_id == Get(message, "bot_id", "")
    IN  [chat_id |-> chat_id,
         ts |-> ts,
         thread_ts |-> thread_ts,
         author |-> IF author_id = "" /\ bot_id # "" THEN "bot:" \o bot_id
                    ELSE user_label(author_id, users_map),
         author_id |-> IF author_id # "" THEN author_id ELSE bot_id,
         text |-> extract_message_text(message),
         subtype |-> Get(message, "subtype", ""),
         reply_count |-> reply_count,
         is_thread_parent |-> IsThreadParent(reply_count, ts, thread_ts),
         edited |-> Get(message, "edited", EmptyDict) # EmptyDict]

\* The messages normalize_message is applied to.
TsValues == {TsNone, TsStr(<<>>), T1002, T205}
ReplyCounts == {-1, 0, 1, 3}
Messages ==
    {With("ts", ts # TsNone, ts) @@ With("thread_ts", thread_ts # TsNone, thread_ts)
        @@ With("reply_count", n # -1, n) @@ With("user", u # "", u)
        @@ With("bot_id", b # "", b) @@ With("text", text # TsNone, text) :
        ts \in {TsNone, T1002, T205}, thread_ts \in TsValues, n \in ReplyCounts,
        u \in {"", "U1", "U9"}, b \in {"", "B1"}, text \in {TsNone, TsStr(Hi)}}
    \cup {("ts" :> T1002) @@ ("thread_ts" :> TsNone) @@ ("reply_count" :> 3)
            @@ ("subtype" :> "bot_message") @@ ("edited" :> ("ts" :> T1002))}

\* normalize_message(message, "C1", users_map)
NormalizeMessage ==
    /\ p_fn = "none"
    /\ \E message \in Messages :
         /\ p_fn' = "normalize_message"
         /\ p_in' = message
         /\ p_out' = normalize_message(message, "C1", LabelUsers)
    /\ UNCHANGED <<tvars, svars, cvars, appvars>>

(***************************************************************************)
(* The history commands (chat.py 194-203, dm.py 124-131): the fetched      *)
(* messages are normalized and sorted by _ts_as_float of their ts.         *)
(***************************************************************************)
\* _ts_as_float(value): the float, 0.0 for what float() rejects
ts_as_float(value) ==
    LET f == PyFloat(TsStr(value))
    IN  IF f.ok THEN f ELSE [ok |-> TRUE, exc |-> "", num |-> 0, scale |-> 0]

\* The order of the characters of a timestamp.
CharRank(c) == IF c = "." THEN 0 ELSE DigitVal(c) + 1

\* Mutant: the timestamps are compared as strings.
RECURSIVE TsLess_Lexical(_, _)
TsLess_Lexical(a, b) ==
    IF b = <<>> THEN FALSE
    ELSE IF a = <<>> THEN TRUE
    ELSE IF Head(a) # Head(b) THEN CharRank(Head(a)) < CharRank(Head(b))
    ELSE TsLess_Lexical(Tail(a), Tail(b))

\* key(a) < key(b) for the sort key _ts_as_float(item.get("ts"))
TsLess(a, b) == FloatGreater(ts_as_float(b), ts_as_float(a))

\* list.sort(key=...): stable, an item goes after the sorted items whose key
\* is not greater than its own.
RECURSIVE InsertByTs(_, _)
InsertByTs(sorted, item) ==
    IF sorted = <<>> THEN <<item>>
    ELSE IF TsLess(item.ts, Head(sorted).ts) THEN <<item>> \o sorted
    ELSE <<Head(sorted)>> \o InsertByTs(Tail(sorted), item)

RECURSIVE SortByTs(_, _)
SortByTs(sorted, items) ==
    IF items = <<>> THEN sorted
    ELSE SortByTs(InsertByTs(sorted, Head(items)), Tail(items))

\* chat_history / dm_history from the fetched messages to the sorted list
history_messages(raw_messages, chat_id, users_map) ==
    SortByTs(<<>>, [i \in 1..Len(raw_messages) |->
                       normalize_message(raw_messages[i], chat_id, users_map)])

\* The messages a history fetch may give: timestamps in any order, equal
\* ones, one with a trailing zero, one missing.
MaxHistoryMessages == 3
T1001 == TsStr(<<"1", "0", "0", ".", "1">>)
T10010 == TsStr(<<"1", "0", "0", ".", "1", "0">>)
T9 == TsStr(<<"9">>)
HistoryTimestamps == {T1002, T205, T1001, T10010, T9, TsNone}
RawMessage(ts, u) == With("ts", ts # TsNone, ts) @@ ("user" :> u)
RawHistories ==
    UNION {[1..n -> {RawMessage(ts, u) : ts \in HistoryTimestamps, u \in {"U1", "U9"}}] :
              n \in 0..MaxHistoryMessages}

SortHistory ==
    /\ p_fn = "none"
    /\ \E raw_messages \in RawHistories :
         /\ p_fn' = "history"
         /\ p_in' = raw_messages
         /\ p_out' = history_messages(raw_messages, "C1", LabelUsers)
    /\ UNCHANGED <<tvars, svars, cvars, appvars>>

NNext == ExtractMessageText \/ NormalizeMessage \/ SortHistory

CNext ==
    \/ ConversationSnapshot
    \/ ConversationChanges
    \/ ListConversations
    \/ ConversationInfo

UNext ==
    \/ UsersAll
    \/ UsersMap
    \/ ResolveUser
    \/ DirectoryChanges

RNext ==
    \/ UsersAll
    \/ ResolveUser
    \/ ResolveConversationStart
    \/ ResolveDmStart
    \/ ChannelScan
    \/ UserStep
    \/ DmStep

(***************************************************************************)
(* The specifications, one per component: an invocation of the Transport,  *)
(* a list scan, and the client's resolvers, directory and snapshots.        *)
(* A run is one thread of control: it is inside one operation at a time,   *)
(* and a scan sees each call it makes only through its result (a page, or  *)
(* the error the call raised).                                             *)
(***************************************************************************)
Init == TInit /\ SInit /\ CInit /\ AInit /\ PInit

SpecTransport == Init /\ [][TNext]_vars

SpecScan == Init /\ [][SNext]_vars

SpecResolve == Init /\ [][RNext]_vars

SpecUsers == Init /\ [][UNext]_vars

SpecSnapshot == Init /\ [][CNext]_vars

SpecRun == Init /\ [][ANext]_vars

SpecHistory == Init /\ [][ConversationHistory]_vars

SpecNormalize == Init /\ [][NNext]_vars

Next == TNext \/ SNext

Spec == Init /\ [][Next]_vars

(***************************************************************************)
(* Transport: the claims.                                                  *)
(***************************************************************************)
\* The outcomes the spec lets the Transport retry.
Retryable(out) == out.t = "neterr" \/ out.status = 429 \/ out.status >= 500

\* The last outcome received.
LastResponse == responses[Len(responses)]

\* C1: one invocation of call or call_raw issues at most 3 HTTP attempts, and
\* a further attempt follows only a network-level failure, a 429 or a 5xx.
C1_AtMostThreeAttempts ==
    /\ Len(requests) <= 3
    /\ \A i \in 1..Len(requests) :
         i < Len(requests) => Retryable(responses[i])

\* C1 witness: a call that used all three attempts (two retries).
C1_Witness ==
    /\ fn = "call"
    /\ pc = "done"
    /\ Len(requests) = 3
    /\ responses[1].t = "neterr"
    /\ responses[2].status = 503

\* C2: when call exhausts its retries, the error raised is that of the last
\* attempt (its network error, or the HTTP status of its 429/5xx response),
\* never the fallback raised after the loop.
C2_ExhaustedRaisesLastOutcome ==
    (fn = "call" /\ pc = "done" /\ Len(requests) = 3 /\ Retryable(LastResponse)) =>
        /\ result.kind = "raise"
        /\ result.exc = "SlackCLIError"
        /\ result.msg \notin {"request_failed", "last_error"}
        /\ LastResponse.t = "neterr" =>
             (result.msg = "network" /\ result.cause = LastResponse.exc)
        /\ LastResponse.t = "resp" =>
             (result.msg = "http" /\ result.status = LastResponse.status)

\* C2 witness: three network failures, the last one different from the first,
\* and the error raised names the last one.
C2_Witness ==
    /\ fn = "call"
    /\ pc = "done"
    /\ Len(requests) = 3
    /\ responses[1].exc = "ConnectError"
    /\ responses[3].exc = "ReadTimeout"
    /\ result.cause = "ReadTimeout"

\* The number of seconds a Retry-After header asks for (1 when absent),
\* read off the header values the server of this model sends.
HeaderSeconds(out) ==
    IF ~out.has_retry_after THEN 1
    ELSE CASE out.retry_after = <<"3">> -> 3
           [] out.retry_after = <<"0">> -> 0
           [] out.retry_after = <<"-", "2">> -> -2
           [] out.retry_after = <<"1", "2">> -> 12
           [] OTHER -> 1

\* C3: whenever a 429 is retried, the wait between that response and the next
\* attempt is max(Retry-After, 1) seconds, whatever the attempt index.
C3_RateLimitWait ==
    \A i \in 1..Len(sleeps) :
        (responses[i].t = "resp" /\ responses[i].status = 429) =>
            /\ sleeps[i] = 10 * Max(HeaderSeconds(responses[i]), 1)
            /\ i < Len(requests) => requests[i + 1].at - requests[i].at = sleeps[i]

\* C3 witness: a 429 with Retry-After: 3 on the second attempt, and the third
\* attempt made at least 3 seconds later.
C3_Witness ==
    /\ Len(requests) = 3
    /\ responses[2].status = 429
    /\ responses[2].has_retry_after
    /\ responses[2].retry_after = <<"3">>
    /\ requests[3].at - requests[2].at >= 30

\* C4: in call, a 4xx other than 429 fails on that attempt with an HTTP error
\* naming the status and the method, with no further attempt; so does a 429
\* or 5xx received on the last allowed attempt.
C4_HttpErrorFails ==
    \A i \in 1..Len(responses) :
        (/\ fn = "call"
         /\ responses[i].t = "resp"
         /\ \/ (responses[i].status >= 400 /\ responses[i].status < 500
                  /\ responses[i].status # 429)
            \/ (i = 3 /\ responses[i].status >= 400)) =>
            /\ pc = "done"
            /\ Len(requests) = i
            /\ result.kind = "raise"
            /\ result.exc = "SlackCLIError"
            /\ result.msg = "http"
            /\ result.status = responses[i].status
            /\ result.target = method

\* C4 witness: a 503 is retried, then a 404 ends the call with the HTTP error.
C4_Witness ==
    /\ fn = "call"
    /\ Len(requests) = 2
    /\ responses[1].status = 503
    /\ responses[2].status = 404
    /\ result.msg = "http"
    /\ result.status = 404

\* C5: in call, an HTTP success whose JSON object has ok false or no ok raises
\* SlackApiError with the method, the remote error code and the payload, on
\* that attempt (never retried); it is not the HTTP-status error.
C5_ApiErrorNotRetried ==
    \A i \in 1..Len(responses) :
        (/\ fn = "call"
         /\ responses[i].t = "resp"
         /\ responses[i].status < 400
         /\ responses[i].body.json = "object"
         /\ responses[i].body.ok # "true") =>
            /\ pc = "done"
            /\ Len(requests) = i
            /\ result.kind = "raise"
            /\ result.exc = "SlackApiError"
            /\ result.msg # "http"
            /\ result.target = method
            /\ result.error = (IF responses[i].body.error = "absent"
                               THEN "unknown_error" ELSE responses[i].body.error)
            /\ result.data = responses[i].body

\* C5 witness: ok false on the first attempt, two attempts still unused.
C5_Witness ==
    /\ fn = "call"
    /\ pc = "done"
    /\ Len(requests) = 1
    /\ result.exc = "SlackApiError"
    /\ result.error = "channel_not_found"

\* Where a request puts its parameters: the query when the passthrough was
\* asked for GET (typed "GET" or " get "), the body otherwise.
ExpectedPlace ==
    IF fn = "call_raw" /\ http_method \in {<<"G", "E", "T">>, <<" ", "g", "e", "t", " ">>}
    THEN "params" ELSE "data"

\* C6 as stated: every request carries settings.token as its token parameter,
\* whatever parameter map the caller supplied.
C6_AlwaysConfiguredToken ==
    \A i \in 1..Len(requests) :
        /\ "token" \in DOMAIN requests[i].payload
        /\ requests[i].payload["token"] = settings_token

\* C6 amended: every request carries a token parameter (in the query for GET,
\* in the body otherwise); it is settings.token when the caller's map has no
\* "token" key, and the caller's own value when it has one.
C6_TokenUnlessSupplied ==
    \A i \in 1..Len(requests) :
        /\ "token" \in DOMAIN requests[i].payload
        /\ requests[i].payload["token"] =
             (IF "token" \in DOMAIN DictOrEmpty(params)
              THEN DictOrEmpty(params)["token"] ELSE settings_token)
        /\ requests[i].where = ExpectedPlace
        /\ \A k \in DOMAIN DictOrEmpty(params) :
             /\ k \in DOMAIN requests[i].payload
             /\ k # "token" => requests[i].payload[k] = DictOrEmpty(params)[k]

\* C6 witness: a GET passthrough retried once; the caller's map has no token
\* and both requests carry the configured one in the query.
C6_Witness ==
    /\ fn = "call_raw"
    /\ Len(requests) = 2
    /\ ~params.none
    /\ "token" \notin DOMAIN params.d
    /\ requests[2].where = "params"
    /\ requests[2].payload["token"] = settings_token

\* C7 as stated: call_raw fails with an HTTP error carrying the status code
\* whenever the final response has status >= 400, and returns a body only for
\* statuses below 400.
C7_RawFailsOnHttpError ==
    (fn = "call_raw" /\ pc = "done" /\ Len(responses) > 0
       /\ LastResponse.t = "resp") =>
        IF LastResponse.status >= 400
        THEN result.kind = "raise" /\ result.status = LastResponse.status
        ELSE result.kind = "return"

(***************************************************************************)
(* List scans: the claims.                                                 *)
(***************************************************************************)
\* C8: in every list scan no cursor value is sent in two requests, the scan
\* stops without a further request as soon as a response carries a
\* next-cursor already seen in the scan, and so a server with k distinct
\* cursors is asked at most k + 1 pages.
C8_NoCursorTwice ==
    /\ \A i, j \in 1..Len(sent_cursors) :
         (i # j /\ sent_cursors[i] # "") => sent_cursors[i] # sent_cursors[j]
    /\ \A i, j \in 1..Len(next_cursors) :
         (i < j /\ next_cursors[j] # "" /\ next_cursors[i] = next_cursors[j]) =>
             (s_pc = "done" /\ Len(sent_cursors) = j)
    /\ Len(sent_cursors) <= Cardinality(Cursors) + 1

\* C8 witness: the name scan was handed the cursor of its first page again
\* by the second page, and stopped after two requests.
C8_Witness ==
    /\ s_fn = "find_conversations_by_name"
    /\ s_pc = "done"
    /\ Len(next_cursors) = 2
    /\ next_cursors[1] # ""
    /\ next_cursors[2] = next_cursors[1]
    /\ Len(sent_cursors) = 2

\* C9 as stated: for any max_items ceiling N >= 0, conversations_list returns
\* at most N items.
C9_AtMostMaxItems ==
    (s_fn = "conversations_list" /\ s_pc = "done" /\ s_result.kind = "return"
       /\ max_items # -1) =>
        Len(s_result.value) <= max_items

\* The same for ceilings N >= 1 (not a claim: the part of C9 the code keeps).
AtMostMaxItemsFromOne ==
    (s_fn = "conversations_list" /\ s_pc = "done" /\ s_result.kind = "return"
       /\ max_items >= 1) =>
        Len(s_result.value) <= max_items

\* C10 as stated: for any max_pages ceiling P >= 0, a scan issues at most P
\* page requests.
C10_AtMostMaxPages ==
    max_pages # -1 => Len(sent_cursors) <= max_pages

\* The same for ceilings P >= 1 (not a claim: the part of C10 the code keeps).
AtMostMaxPagesFromOne ==
    max_pages >= 1 => Len(sent_cursors) <= max_pages

\* A scan that needs no more items: conversations_list holds max_items items,
\* the name scan holds max_matches matches, the DM scan holds its DM.
HasEnough ==
    \/ s_fn = "conversations_list" /\ max_items # -1 /\ Len(collected) >= max_items
    \/ s_fn = "find_conversations_by_name" /\ Len(collected) >= max_matches
    \/ s_fn = "find_dm_by_user_id" /\ collected # <<>>

\* C11 as stated: once a response has come in and the scan holds what it was
\* asked for (max_items items, max_matches matches, the DM of the user), it
\* is over: no further page is requested, whatever next-cursor came last.
C11_EnoughStopsFetching ==
    (Len(next_cursors) >= 1 /\ HasEnough) => s_pc = "done"

\* The same with a ceiling max_items >= 1 (not a claim: the part of C11 the
\* code keeps; the name and DM scans are as in C11).
EnoughStopsFetchingFromOne ==
    (Len(next_cursors) >= 1 /\ HasEnough
       /\ (s_fn = "conversations_list" => max_items >= 1)) =>
        s_pc = "done"

\* Not a claim: a scan stopped by what it holds, with a cursor left unused.
StoppedWithCursorLeft ==
    /\ s_fn = "find_conversations_by_name"
    /\ s_pc = "done"
    /\ Len(collected) = max_matches
    /\ next_cursors[Len(next_cursors)] # ""
    /\ next_cursors[Len(next_cursors)] \notin seen_cursors


\* The items of the pages served, page after page.
RECURSIVE Flatten(_)
Flatten(ps) == IF ps = <<>> THEN <<>> ELSE Head(ps) \o Flatten(Tail(ps))

\* s is t or the beginning of t.
IsPrefix(s, t) == Len(s) <= Len(t) /\ SubSeq(t, 1, Len(s)) = s

\* C12: in a list scan the first request carries no cursor, each later
\* request carries exactly the next-cursor of the response just before it, no
\* request follows a response whose next-cursor is empty or absent, and the
\* items come out in page order and, within a page, in the page's order
\* (_paginate read to its end yields every item served; conversations_list
\* holds a beginning of them).
C12_CursorChainAndOrder ==
    /\ sent_cursors # <<>> => sent_cursors[1] = ""
    /\ \A i \in 1..Len(next_cursors) :
         i < Len(sent_cursors) =>
             /\ next_cursors[i] # ""
             /\ sent_cursors[i + 1] = next_cursors[i]
    /\ s_fn = "_paginate" => collected = Flatten(pages)
    /\ s_fn = "conversations_list" => IsPrefix(collected, Flatten(pages))

\* C12 witness: _paginate read three pages, following two different cursors,
\* the first two pages holding different items.
C12_Witness ==
    /\ s_fn = "_paginate"
    /\ s_pc = "done"
    /\ s_result.kind = "return"
    /\ Len(sent_cursors) = 3
    /\ sent_cursors[2] # sent_cursors[3]
    /\ next_cursors[3] = ""
    /\ pages[1] = <<ChannelDev, DmU1>>
    /\ pages[2] = <<DmU1>>
    /\ s_result.value = <<ChannelDev, DmU1, DmU1>>


(***************************************************************************)
(* The resolvers: the claims.                                              *)
(***************************************************************************)
\* The canonical conversation-ID shape, ^[CDG][A-Z0-9]+$.
CanonicalConversationId(s) ==
    /\ Len(s) >= 2
    /\ s[1] \in {"C", "D", "G"}
    /\ \A i \in 2..Len(s) : s[i] \in UpperLetters \cup DigitChars

\* The page requests of the operation.
RequestsMade == SelectSeq(r_events, LAMBDA e : e.ev = "request")

\* No cache of the client differs from what it was when the operation was
\* called.
CachesUntouched ==
    /\ users_cache = r_before.users
    /\ users_map_cache = r_before.users_map
    /\ conversation_cache = r_before.conversations
    /\ conversation_snapshot_cache = r_before.snapshots

\* C13: resolve_conversation_id on a target that, trimmed, has the canonical
\* conversation-ID shape returns the trimmed target, makes no network call
\* and leaves every cache of the client as it was.
C13_CanonicalIdPassesThrough ==
    (r_fn = "resolve_conversation_id" /\ CanonicalConversationId(Strip(r_target))) =>
        /\ r_pc = "done"
        /\ r_result = RReturn(Join(Strip(r_target)))
        /\ RequestsMade = <<>>
        /\ CachesUntouched

\* C13 witness: " G7 " resolved to "G7" on a client whose user directory was
\* already cached.
C13_Witness ==
    /\ r_fn = "resolve_conversation_id"
    /\ r_pc = "done"
    /\ r_target = <<" ", "G", "7", " ">>
    /\ r_result.kind = "return"
    /\ r_result.id = "G7"
    /\ ~r_before.users.none
    /\ Len(r_before.users.d) >= 2


\* The name the target asks for: trimmed, without a leading #, lower-cased.
TargetName == Lower(Strip(RemovePrefix(Strip(r_target), <<"#">>)))

\* The conversations served to the channel scan whose name equals the
\* target's case-insensitively, in the order served.
NamedLikeTarget(ch) == Lower(ch.name) = TargetName
MatchesServed == SelectSeq(Flatten(r_listing), NamedLikeTarget)

\* The channel scan was served every page it asked for: no call failed, or
\* the call that failed came after the scan, inside the DM resolution.
ChannelScanServed ==
    /\ r_listing # <<>>
    /\ r_raised = NoError \/ \E i \in 1..Len(r_events) : r_events[i].ev = "enter"

\* resolve_conversation_id has run its channel scan, and the scan was served.
ChannelScanDone ==
    r_fn = "resolve_conversation_id" /\ r_pc # "channels" /\ ChannelScanServed

\* C14 as stated: resolve_conversation_id on a channel name returns the ID of
\* the conversation named like the target when there is exactly one, and
\* with m >= 2 of them raises AmbiguousTargetError with min(m, 8) candidates.
C14_OneOrAmbiguousUpToEight ==
    ChannelScanDone =>
        LET m == Len(MatchesServed) IN
        /\ m = 1 => (r_pc = "done" /\ r_result = RReturn(MatchesServed[1].id))
        /\ m >= 2 =>
             /\ r_pc = "done"
             /\ r_result.exc = "AmbiguousTargetError"
             /\ Len(r_result.candidates) = Min(m, 8)

\* The same with min(m, max_matches) candidates (not a claim: what the code
\* does).
OneOrAmbiguousUpToMaxMatches ==
    ChannelScanDone =>
        LET m == Len(MatchesServed) IN
        /\ m = 1 => (r_pc = "done" /\ r_result = RReturn(MatchesServed[1].id))
        /\ m >= 2 =>
             /\ r_pc = "done"
             /\ r_result.exc = "AmbiguousTargetError"
             /\ Len(r_result.candidates) = Min(m, max_matches)

\* Not a claim: one conversation named like the target, on the second page.
OneMatchReturned ==
    /\ ChannelScanDone
    /\ Len(r_listing) = 2
    /\ Len(MatchesServed) = 1
    /\ NamedLikeTarget(r_listing[2][1])
    /\ r_result.kind = "return"


\* C15: whenever the pages served to the channel scan hold two or more
\* conversations named like the target, resolve_conversation_id raises
\* AmbiguousTargetError; it never returns an ID.
C15_NeverSilentPick ==
    (r_fn = "resolve_conversation_id" /\ r_pc # "channels"
       /\ Len(MatchesServed) >= 2) =>
        /\ r_pc = "done"
        /\ r_result.kind = "raise"
        /\ r_result.exc = "AmbiguousTargetError"

\* C15 witness: the two conversations named like the target came on
\* different pages, after one named otherwise.
C15_Witness ==
    /\ r_fn = "resolve_conversation_id"
    /\ r_pc = "done"
    /\ Len(r_listing) = 2
    /\ Len(r_listing[1]) = 2
    /\ Len(r_listing[2]) = 1
    /\ ~NamedLikeTarget(r_listing[1][1])
    /\ NamedLikeTarget(r_listing[1][2])
    /\ NamedLikeTarget(r_listing[2][1])
    /\ r_result.exc = "AmbiguousTargetError"
    /\ r_result.candidates = <<"C2", "C3">>


\* The channel scan was served and met no conversation named like the target.
ZeroMatches ==
    /\ r_fn = "resolve_conversation_id"
    /\ r_pc # "channels"
    /\ ChannelScanServed
    /\ MatchesServed = <<>>

\* C16: when the channel scan of resolve_conversation_id finds no match, DM
\* resolution is entered with the same trimmed target text right after the
\* scan's requests, before anything is reported; "No conversation found" is
\* raised only when that DM resolution has ended in NotFoundError; and a
\* target starting with @ enters DM resolution with no channel scan at all.
C16_DmFallbackBeforeNotFound ==
    /\ ZeroMatches =>
         /\ Len(r_events) > Len(r_listing)
         /\ \A i \in 1..Len(r_listing) : r_events[i].fn = "users.conversations"
         /\ r_events[Len(r_listing) + 1] =
              Ev("enter", "resolve_dm_id", Strip(r_target), "")
    /\ (r_fn = "resolve_conversation_id" /\ r_result.msg = "no_conversation") =>
         /\ ZeroMatches
         /\ r_result.exc = "NotFoundError"
         /\ r_events[Len(r_events)] = Ev("exit", "resolve_dm_id", <<>>, "NotFoundError")
    /\ (r_fn = "resolve_conversation_id" /\ StartsWith(Strip(r_target), <<"@">>)) =>
         /\ r_listing = <<>>
         /\ r_events # <<>>
         /\ r_events[1] = Ev("enter", "resolve_dm_id", Strip(r_target), "")

\* C16 witness: "ann" names no channel on the two pages served; the DM
\* resolution scanned a directory without such a user and failed, and only
\* then "No conversation found" was raised.
C16_Witness ==
    /\ r_fn = "resolve_conversation_id"
    /\ r_pc = "done"
    /\ r_target = Ann
    /\ Len(r_listing) = 2
    /\ r_before.users.none
    /\ Len(users_scans) = 1
    /\ users_scans[1].ok
    /\ users_scans[1].users # <<>>
    /\ r_result = RRaise("NotFoundError", "no_conversation")
    /\ Len(r_events) = 5

\* Not a claim: a target starting with @ resolved to a DM with no channel scan.
AtTargetResolved ==
    /\ r_fn = "resolve_conversation_id"
    /\ r_target = <<"@", "A", "n", "n">>
    /\ r_result.kind = "return"
    /\ r_result.id = "D1"


\* The user-ID shape, ^U[A-Z0-9]+$.
UserIdShape(s) ==
    /\ Len(s) >= 2
    /\ s[1] = "U"
    /\ \A i \in 2..Len(s) : s[i] \in UpperLetters \cup DigitChars

\* The handle the target asks for: trimmed, without a leading @, lower-cased.
TargetHandle == Strip(Lower(RemovePrefix(Strip(r_target), <<"@">>)))

\* resolve_user_id was called with a target that is not a user ID, and the
\* directory was there to scan (cached, or fetched without error).
UserLookupDone ==
    /\ r_fn = "resolve_user_id"
    /\ ~UserIdShape(Strip(r_target))
    /\ ~users_cache.none
    /\ r_raised = NoError

\* One ID, not-found, or min(m, 8) candidates, for the matching users ms.
OneZeroOrAmbiguous(ms) ==
    /\ Len(ms) = 1 => r_result = RReturn(ms[1].id)
    /\ Len(ms) = 0 => (r_result.kind = "raise" /\ r_result.exc = "NotFoundError")
    /\ Len(ms) >= 2 =>
         /\ r_result.exc = "AmbiguousTargetError"
         /\ r_result.candidates = [i \in 1..Min(Len(ms), 8) |-> ms[i].id]

\* C17 as stated: the lower-cased target is compared for exact equality with
\* the handle, display name and real name of every user of the directory.
C17_EveryUserExactFields ==
    UserLookupDone =>
        OneZeroOrAmbiguous(
            SelectSeq(users_cache.d,
                      LAMBDA u : TargetHandle \in {u.name, u.display_name, u.real_name}))

\* C17 amended: a non-empty handle is compared with the lower-cased handle,
\* display name and real name of every user that is not deleted; an empty
\* handle raises not-found.
C17_LiveUsersIgnoringCase ==
    UserLookupDone =>
        IF TargetHandle = <<>>
        THEN r_result.kind = "raise" /\ r_result.exc = "NotFoundError"
        ELSE OneZeroOrAmbiguous(
                SelectSeq(users_cache.d,
                          LAMBDA u : /\ ~u.deleted
                                     /\ TargetHandle \in {Lower(u.name),
                                                           Lower(u.display_name),
                                                           Lower(u.real_name)}))

\* C17 witness: "@Ann" against a directory fetched in three pages: a deleted
\* "ann" first, then nine live ones; eight candidates, the deleted one not
\* among them.
C17_Witness ==
    /\ r_fn = "resolve_user_id"
    /\ r_target = <<"@", "A", "n", "n">>
    /\ r_before.users.none
    /\ Len(r_events) = 3
    /\ Len(users_cache.d) = 9
    /\ users_cache.d[1].deleted
    /\ r_result.exc = "AmbiguousTargetError"
    /\ r_result.candidates = <<"U2", "U3", "U4", "U5", "U6", "U7", "U8", "U9">>

\* Not a claim: the example of C17, users U1 and U2 both with handle "ann".
TwoAnns ==
    /\ r_fn = "resolve_user_id"
    /\ r_target = <<"@", "A", "n", "n">>
    /\ Len(users_cache.d) = 2
    /\ r_result.exc = "AmbiguousTargetError"
    /\ r_result.candidates = <<"U1", "U2">>


\* The shape of a DM-conversation ID, ^D[A-Z0-9]+$.
DmIdShape(s) == CanonicalConversationId(s) /\ s[1] = "D"

\* resolve_dm_id, called on its own, has ended.
DmResolutionDone == r_fn = "resolve_dm_id" /\ r_pc = "done"

\* What resolve_dm_id owes a target that is not passed through: the ID of a
\* DM conversation served to the scan whose peer is the user resolved,
\* not-found when the scan was served none, and no request but users.list
\* and the conversation listing.
ResolvedThroughUser ==
    /\ r_result.kind = "return" =>
         /\ r_user_id # ""
         /\ \E p \in 1..Len(r_dms) : \E i \in 1..Len(r_dms[p]) :
              r_dms[p][i].id = r_result.id /\ r_dms[p][i].user = r_user_id
    /\ (r_dms # <<>> /\ r_raised = NoError
              /\ \A p \in 1..Len(r_dms) : \A i \in 1..Len(r_dms[p]) :
                    r_dms[p][i].user # r_user_id) =>
         (r_result.kind = "raise" /\ r_result.exc = "NotFoundError")
    /\ \A i \in 1..Len(r_events) :
         r_events[i].ev = "request" =>
             r_events[i].fn \in {"users.list", "users.conversations"}

\* C18 as stated: resolve_dm_id returns its trimmed target with no network
\* call only when the target has the shape of a DM-conversation ID; every
\* other target goes through a user ID and the scan of the DM conversations.
C18_PassThroughOnlyDmIds ==
    DmResolutionDone =>
        IF DmIdShape(Strip(r_target))
        THEN r_result = RReturn(Join(Strip(r_target))) /\ RequestsMade = <<>>
        ELSE ResolvedThroughUser

\* The same for the targets starting with D (not a claim: what the code does).
PassThroughLeadingD ==
    DmResolutionDone =>
        IF StartsWith(Strip(r_target), <<"D">>)
        THEN r_result = RReturn(Join(Strip(r_target))) /\ RequestsMade = <<>>
        ELSE ResolvedThroughUser

\* Not a claim: "@Ann" resolved to user U2, whose DM came on the second page.
DmFoundOnSecondPage ==
    /\ DmResolutionDone
    /\ r_target = <<"@", "A", "n", "n">>
    /\ r_user_id = "U2"
    /\ Len(r_dms) = 2
    /\ r_dms[1] = <<>>
    /\ r_result = RReturn("D1")

\* Not a claim: the user was resolved and has no DM conversation.
DmNotFound ==
    /\ DmResolutionDone
    /\ r_user_id = "U1"
    /\ r_dms = << <<Im(1, "U2")>> >>
    /\ r_result = RRaise("NotFoundError", "no_dm")


(***************************************************************************)
(* The user directory: the claims.                                         *)
(***************************************************************************)
\* The last users.list scan of the client succeeded: its users are the
\* snapshot.
HasSnapshot == users_scans # <<>> /\ users_scans[Len(users_scans)].ok
Snapshot == users_scans[Len(users_scans)].users

\* map is the table of users keyed by their IDs.
IsTableOf(map, users) ==
    /\ DOMAIN map = {users[i].id : i \in 1..Len(users)}
    /\ \A i \in 1..Len(users) : map[users[i].id] = users[i]

\* C19: over the users_all, users_map and resolve_user_id calls of one
\* client, no users.list scan follows a successful one; a call made once the
\* directory is cached sends no request; and from the successful scan on
\* every result is that of its snapshot, whatever the server holds by then.
C19_DirectoryFetchedOnce ==
    /\ \A i \in 1..Len(users_scans) : users_scans[i].ok => i = Len(users_scans)
    /\ (r_fn \in {"users_all", "users_map", "resolve_user_id"}
          /\ ~r_before.users.none) =>
         (RequestsMade = <<>> /\ users_cache = r_before.users)
    /\ HasSnapshot =>
         /\ users_cache = [none |-> FALSE, d |-> Snapshot]
         /\ r_fn = "users_all" =>
              (r_result.kind = "return" /\ r_result.users = Snapshot)
         /\ r_fn = "users_map" =>
              (r_result.kind = "return" /\ IsTableOf(r_result.map, Snapshot))
         /\ (r_fn = "resolve_user_id" /\ ~UserIdShape(Strip(r_target))
               /\ TargetHandle # <<>>) =>
              OneZeroOrAmbiguous(
                  SelectSeq(Snapshot,
                            LAMBDA u : /\ ~u.deleted
                                       /\ TargetHandle \in {Lower(u.name),
                                                             Lower(u.display_name),
                                                             Lower(u.real_name)}))

\* C19 witness: the first call fetched a directory of two users, the server
\* then changed it, and the second call, users_map, still returned the
\* table of those two users without a request.
C19_Witness ==
    /\ n_ops = 2
    /\ r_fn = "users_map"
    /\ ~r_before.users.none
    /\ Len(users_scans) = 1
    /\ Len(Snapshot) = 2
    /\ srv_users # Snapshot
    /\ r_events = <<>>
    /\ IsTableOf(r_result.map, Snapshot)


(***************************************************************************)
(* conversation_snapshot: the claims.                                      *)
(***************************************************************************)
\* The conversation the last operation asked for.
AskedId == Join(r_target)

\* conversation_snapshot(AskedId) had already returned when the last
\* operation was called.
ReturnedBefore ==
    /\ r_fn = "conversation_snapshot"
    /\ AskedId \in DOMAIN snapshots_returned
    /\ Len(snapshots_returned[AskedId]) >= (IF r_result.kind = "return" THEN 2 ELSE 1)

\* C20: once conversation_snapshot(id) has returned, every later
\* conversation_snapshot(id) of the client returns, sends no request, and
\* gives the content the first one gave, whatever the server holds by then
\* and whatever other snapshots were taken.
C20_SnapshotComputedOnce ==
    /\ \A id \in DOMAIN snapshots_returned :
         \A j \in 1..Len(snapshots_returned[id]) :
             snapshots_returned[id][j] = snapshots_returned[id][1]
    /\ ReturnedBefore =>
         /\ r_result.kind = "return"
         /\ RequestsMade = <<>>
         /\ r_result.snapshot = snapshots_returned[AskedId][1]

\* C20 witness: the third call of the client is the second one for C1; C2
\* was snapshotted too, the server's C1 is no longer the one fetched, and
\* the call returned the first content (with the latest message the history
\* gave then) without a request.
C20_Witness ==
    /\ n_ops = 3
    /\ ReturnedBefore
    /\ AskedId = "C1"
    /\ "C2" \in DOMAIN snapshots_returned
    /\ "C1" \in DOMAIN srv_channels \cap DOMAIN conversation_cache
    /\ srv_channels["C1"] # conversation_cache["C1"]
    /\ r_events = <<>>
    /\ Get(r_result.snapshot, "latest", Bare(TsNone)) = Message(T1002)
    /\ r_result.snapshot = snapshots_returned["C1"][1]

\* The last operation was a conversation_snapshot of a conversation of
\* which the client had no snapshot.
FirstSnapshot ==
    r_fn = "conversation_snapshot" /\ AskedId \notin DOMAIN r_before.snapshots

\* The requests of the last operation to method m, with their answers.
CallsOf(m) == SelectSeq(r_calls, LAMBDA c : c.method = m)

\* The base info of the last operation: the channel conversations.info
\* answered with, else the entry the conversation cache had, else {}.
BaseInfo ==
    IF r_calls[1].channel # NoChannel THEN r_calls[1].channel
    ELSE Get(r_before.conversations, AskedId, NoChannel)

\* base carries a latest message that has a timestamp.
HasLatestTs(base) ==
    /\ "latest" \in DOMAIN base
    /\ base["latest"].dict
    /\ base["latest"].ts \notin {TsNone, TsStr(<<>>)}

\* C21: a conversation_snapshot(id) that finds no snapshot of id sends one
\* conversations.info request first; if that fails nothing else is sent;
\* otherwise one conversations.history request with limit 1 follows exactly
\* when the base info has no latest-message timestamp, and nothing else is
\* sent; and when that request is answered with messages and the snapshot
\* is returned, the first of them is the snapshot's latest message.
C21_InfoThenHistoryIfNoLatest ==
    FirstSnapshot =>
        LET history == CallsOf("conversations.history") IN
        /\ Len(CallsOf("conversations.info")) = 1
        /\ r_calls[1].method = "conversations.info"
        /\ Len(r_calls) = 1 + Len(history)
        /\ ~r_calls[1].ok => history = <<>>
        /\ r_calls[1].ok =>
              /\ Len(history) = (IF HasLatestTs(BaseInfo) THEN 0 ELSE 1)
              /\ \A i \in 1..Len(history) : history[i].limit = 1
              /\ \A i \in 1..Len(history) :
                    history[i].items # <<>> /\ r_result.kind = "return" =>
                        /\ "latest" \in DOMAIN r_result.snapshot
                        /\ r_result.snapshot["latest"] = history[i].items[1]

\* C21 witness: the base info holds a bare string where the latest message
\* is expected; one history request with limit 1 was sent after the info
\* request, the server answered with two messages and announced more, and
\* the first message is the latest of the snapshot returned.
C21_Witness ==
    /\ FirstSnapshot
    /\ r_result.kind = "return"
    /\ Len(r_calls) = 2
    /\ r_calls[1].ok
    /\ Get(BaseInfo, "latest", Bare(TsNone)) = Bare(T1002)
    /\ r_calls[2].method = "conversations.history"
    /\ r_calls[2].limit = 1
    /\ Len(r_calls[2].items) = 2
    /\ r_result.snapshot["latest"] = Message(T1002)

\* Every request of the last operation was answered.
AllAnswered == \A i \in 1..Len(r_calls) : r_calls[i].ok

\* The unread counter of a conversation object: unread_count_display, else
\* unread_count, else -1.
ExplicitUnread(c) ==
    IF Get(c, "unread_count_display", -1) # -1 THEN c["unread_count_display"]
    ELSE Get(c, "unread_count", -1)

\* The timestamp of the latest message of a conversation object.
LatestTs(c) ==
    IF "latest" \in DOMAIN c /\ c["latest"].dict THEN c["latest"].ts ELSE TsNone

\* 1 if both timestamps are numbers and latest is the greater, else 0.
ExpectedFallback(latest, last_read) ==
    IF PyFloat(latest).ok /\ PyFloat(last_read).ok
       /\ FloatGreater(PyFloat(latest), PyFloat(last_read))
    THEN 1 ELSE 0

\* The snapshot s keeps the counters of base, or has the fallback in both.
KeptOrFallback(base, s) ==
    IF ExplicitUnread(base) # -1
    THEN /\ Get(s, "unread_count_display", -1) = Get(base, "unread_count_display", -1)
         /\ Get(s, "unread_count", -1) = Get(base, "unread_count", -1)
    ELSE LET f == ExpectedFallback(LatestTs(s), Get(s, "last_read", TsNone))
         IN  /\ Get(s, "unread_count_display", -1) = f
             /\ Get(s, "unread_count", -1) = f

\* C22: a conversation_snapshot whose requests were all answered returns a
\* snapshot that keeps the unread counters of the base info when it has one
\* (unread_count_display, else unread_count), and otherwise has both set to
\* the fallback: 1 if the timestamp of the latest message is numerically
\* greater than last_read, 0 in every other case.
C22_UnreadKeptOrFallback ==
    FirstSnapshot /\ AllAnswered =>
        /\ r_result.kind = "return"
        /\ KeptOrFallback(BaseInfo, r_result.snapshot)

\* The same, for the snapshots that are returned: what conversation_snapshot
\* returns is as C22 says (not a claim: what the code does).
ReturnedKeptOrFallback ==
    FirstSnapshot /\ r_result.kind = "return" =>
        KeptOrFallback(BaseInfo, r_result.snapshot)

\* A snapshot was refused: the base info has a latest message and a
\* last_read that is an integer beyond the range of a float, and
\* conversation_snapshot ends with the OverflowError of float().
UnreadOverflow ==
    /\ FirstSnapshot /\ AllAnswered
    /\ Get(BaseInfo, "last_read", TsNone) = TsHuge
    /\ r_result.kind = "raise"
    /\ r_result.exc = "OverflowError"
    /\ AskedId \notin DOMAIN conversation_snapshot_cache

\* The fallback compares numbers, not strings: the latest message "100.2"
\* that the history gave is after the last_read "20.5".
NumericFallback ==
    /\ FirstSnapshot /\ r_result.kind = "return"
    /\ Get(BaseInfo, "last_read", TsNone) = T205
    /\ LatestTs(r_result.snapshot) = T1002
    /\ r_result.snapshot["unread_count"] = 1
    /\ r_result.snapshot["unread_count_display"] = 1

(***************************************************************************)
(* The conversation cache: the claims.                                     *)
(***************************************************************************)
\* The conversations in the pages the last operation was answered with.
SeenItems == Flatten([i \in 1..Len(r_calls) |-> r_calls[i].items])

\* Every conversation of items that has an id is in the conversation cache
\* under that id, as the last one of items with that id.
AllStored(items) ==
    \A i \in 1..Len(items) :
        LET id == Get(items[i], "id", "") IN
        id # "" =>
            /\ id \in DOMAIN conversation_cache
            /\ \E j \in i..Len(items) :
                  Get(items[j], "id", "") = id /\ conversation_cache[id] = items[j]

\* conversations.info answered the last operation, and this is the channel
\* object of the answer ({}: none).
InfoAnswered ==
    /\ r_fn \in {"conversation_info", "conversation_snapshot"}
    /\ r_calls # <<>>
    /\ r_calls[1].ok

\* What conversations.info and conversation_info do with the cache, and that
\* neither reads the snapshot cache.
InfoCachedAndFallsBack ==
    /\ InfoAnswered => AllStored(<<r_calls[1].channel>>)
    /\ InfoAnswered /\ r_fn = "conversation_info" => r_result.snapshot = BaseInfo
    /\ InfoAnswered /\ r_result.kind = "return" /\ r_fn = "conversation_snapshot" =>
          \A k \in DOMAIN BaseInfo \ {"latest", "unread_count", "unread_count_display"} :
              k \in DOMAIN r_result.snapshot /\ r_result.snapshot[k] = BaseInfo[k]
    /\ r_fn = "conversation_info" =>
          /\ Len(r_calls) = 1
          /\ conversation_snapshot_cache = r_before.snapshots
    /\ r_fn = "conversation_snapshot" /\ ~FirstSnapshot =>
          conversation_cache = r_before.conversations
    /\ \A id \in DOMAIN r_before.conversations : id \in DOMAIN conversation_cache

\* C23, as stated: every conversation with an id that a list scan was
\* served, or that conversations.info answered with, is in the conversation
\* cache; and when conversations.info answers without a channel object,
\* conversation_info returns the entry cached for the id, or {}, and
\* conversation_snapshot is made of it.
C23_EverySeenConversationCached ==
    /\ r_fn = "conversations_list" => AllStored(SeenItems)
    /\ InfoCachedAndFallsBack

\* C23, amended: conversations_list stores the conversations it read only
\* when the scan comes to its end: a scan that raises leaves the cache as
\* it was, whatever its earlier pages held.
C23_ListedConversationsCachedOnReturn ==
    /\ r_fn = "conversations_list" /\ r_result.kind = "return" => AllStored(SeenItems)
    /\ r_fn = "conversations_list" /\ r_result.kind = "raise" =>
          conversation_cache = r_before.conversations
    /\ InfoCachedAndFallsBack

\* C23 witness: C1 came in a list scan, and conversation_info("C1") is then
\* answered without a channel object: it returned the listed conversation.
C23_Witness ==
    /\ r_fn = "conversation_info"
    /\ AskedId = "C1"
    /\ InfoAnswered
    /\ r_calls[1].channel = NoChannel
    /\ r_result.kind = "return"
    /\ r_result.snapshot = Listed("C1")
    /\ conversation_cache = r_before.conversations

\* A snapshot of C1 is cached, and conversation_info("C1") asks the server
\* all the same; answered without a channel object, it returns what
\* conversations.info gave the snapshot, not the snapshot.
InfoAfterSnapshot ==
    /\ r_fn = "conversation_info"
    /\ AskedId = "C1"
    /\ InfoAnswered
    /\ r_calls[1].channel = NoChannel
    /\ "C1" \in DOMAIN r_before.snapshots
    /\ r_result.snapshot = ("id" :> "C1") @@ ("last_read" :> T205)
    /\ r_result.snapshot # r_before.snapshots["C1"]

\* A list scan saw C1 on its first page and failed on the second: C1 is
\* not in the cache.
ListedButNotCached ==
    /\ r_fn = "conversations_list"
    /\ r_result.kind = "raise"
    /\ Len(SeenItems) = 1
    /\ SeenItems[1] = Listed("C1")
    /\ "C1" \notin DOMAIN conversation_cache

(***************************************************************************)
(* The resolvers and the errors of the Transport: the claims.              *)
(***************************************************************************)
\* A resolver was called last, and it has returned or raised.
ResolverEnded ==
    /\ r_fn \in {"resolve_conversation_id", "resolve_user_id", "resolve_dm_id"}
    /\ r_result.kind # "none"

\* How the DM resolution that resolve_conversation_id fell back to ended:
\* "return" or the name of its exception.
FallbackOutcome == r_events[Len(r_events)].out

\* C24: an error that self.call raises inside resolve_conversation_id,
\* resolve_user_id or resolve_dm_id, on any request, is what the resolver
\* raises, class and message; no resolver raises a Transport error of its
\* own; and the DM fallback of resolve_conversation_id turns a NotFoundError
\* into "No conversation found" and nothing else: an AmbiguousTargetError or
\* a Transport error of the fallback reaches the caller as it is.
C24_TransportErrorsReachCaller ==
    ResolverEnded =>
        /\ r_raised # NoError =>
              /\ r_result.kind = "raise"
              /\ r_result.exc = r_raised.exc
              /\ r_result.msg = r_raised.msg
        /\ r_raised = NoError => r_result.exc \notin {"SlackCLIError", "SlackApiError"}
        /\ (r_fn = "resolve_conversation_id" /\ r_via = "fallback") =>
              /\ r_events[Len(r_events)].ev = "exit"
              /\ FallbackOutcome = "NotFoundError" =>
                    r_result = RRaise("NotFoundError", "no_conversation")
              /\ FallbackOutcome # "NotFoundError" =>
                    /\ r_result.msg # "no_conversation"
                    /\ r_result.exc = (IF FallbackOutcome = "return" THEN ""
                                       ELSE FallbackOutcome)
              /\ FallbackOutcome = "AmbiguousTargetError" => r_result.candidates # <<>>

\* C24 witness: "ann" names no channel, so resolve_conversation_id falls
\* back to the DM resolution, whose users.list scan is served one page and
\* fails on the second request with an API error: the caller gets that
\* SlackApiError.
C24_Witness ==
    /\ ResolverEnded
    /\ r_fn = "resolve_conversation_id"
    /\ r_target = Ann
    /\ r_via = "fallback"
    /\ r_listing # <<>>
    /\ r_raised = [exc |-> "SlackApiError", msg |-> "api"]
    /\ Len(SelectSeq(r_events, LAMBDA e : e.fn = "users.list")) = 2
    /\ FallbackOutcome = "SlackApiError"
    /\ r_result = RRaise("SlackApiError", "api")

\* The fallback met two users named like the target: the caller gets the
\* AmbiguousTargetError with both.
AmbiguousInFallback ==
    /\ ResolverEnded
    /\ r_fn = "resolve_conversation_id"
    /\ r_via = "fallback"
    /\ r_raised = NoError
    /\ FallbackOutcome = "AmbiguousTargetError"
    /\ r_result.exc = "AmbiguousTargetError"
    /\ Len(r_result.candidates) = 2

\* The channel scan itself fails on its second request, with an HTTP error.
ChannelScanFailsLater ==
    /\ ResolverEnded
    /\ r_fn = "resolve_conversation_id"
    /\ r_via = ""
    /\ Len(r_listing) = 1
    /\ Len(RequestsMade) = 2
    /\ r_result = RRaise("SlackCLIError", "http")


(***************************************************************************)
(* C25: the settings of a run                                              *)
(***************************************************************************)
\* The variables load_settings reads, once the env file is loaded.
Credentials ==
    IF a_env.override = "missing" THEN a_env.environ
    ELSE LoadDotenv(a_env.environ, a_env.file)

Credential(name) == Strip(Get(Credentials, name, <<>>))

BadCredentials ==
    \/ \E name \in {"SLACK_WORKSPACE", "TOKEN", "D_COOKIE"} : Credential(name) = <<>>
    \/ ~WORKSPACE_RE(Credential("SLACK_WORKSPACE"))

\* The run is of a command outside the auth group, and not for its help.
NonAuthRun ==
    /\ a_pc # "idle"
    /\ a_argv.command # "auth logout"
    /\ ~a_argv.help

\* C25: a run of a non-auth command whose workspace, token or cookie is
\* empty, or whose workspace is no slug, makes no network call and ends with
\* a ConfigError.
C25_ConfigErrorBeforeAnyCall ==
    (NonAuthRun /\ BadCredentials) =>
        /\ a_calls = 0
        /\ a_pc = "done" => a_result.exc = "ConfigError"

\* What the code does keep: when the first token of the command line that
\* is no option is not "auth" and no help is asked for, bad credentials end
\* the run in main() with a ConfigError, before the command and any call.
ConfigErrorUnlessAuthToken ==
    (/\ a_pc # "idle"
     /\ BadCredentials
     /\ first_resource_arg(a_argv.tokens).s # AuthTok
     /\ ~HelpAsked(a_argv.tokens)) =>
        /\ a_pc = "done"
        /\ a_result.exc = "ConfigError"
        /\ a_calls = 0

\* A run of `--fields auth chat list` without credentials: main() loads no
\* settings and the command fails on the client that is None.
FieldsValueTakenForAuth ==
    /\ a_pc = "done"
    /\ a_argv.command = "chat list"
    /\ BadCredentials
    /\ a_result.exc = "AttributeError"

\* A run with good credentials reaches the network.
RunReachesNetwork ==
    /\ a_pc = "done"
    /\ a_argv.command = "me"
    /\ ~BadCredentials
    /\ a_calls = 1


(***************************************************************************)
(* C26: the cursors of a history fetch                                     *)
(***************************************************************************)
HistoryFetched == p_fn = "conversation_history"

\* The cursor parameter of every request of the fetch ("": none sent).
HistoryCursorsSent == [i \in 1..Len(p_out.sent) |-> p_out.sent[i].cursor]

\* C26: within one conversation_history fetch no cursor value is sent in two
\* requests, whatever the server answers.
C26_HistoryCursorSentOnce ==
    HistoryFetched =>
        \A i, j \in 1..Len(HistoryCursorsSent) :
            (i < j /\ HistoryCursorsSent[i] # "") =>
                HistoryCursorsSent[i] # HistoryCursorsSent[j]

\* The server gives next_cursor "a" with every page of one message: the
\* fetch of three messages sends "a" twice.
HistoryCursorRepeated ==
    /\ HistoryFetched
    /\ p_in.limit = 3
    /\ HistoryCursorsSent = <<"", "a", "a">>
    /\ p_out.kind = "return"
    /\ Len(p_out.messages) = 3

\* The server sets has_more and gives no cursor: the fetch asks for the
\* first page again and returns its message twice.
HistoryFirstPageAgain ==
    /\ HistoryFetched
    /\ p_in.limit = 2
    /\ HistoryCursorsSent = <<"", "">>
    /\ p_out.kind = "return"
    /\ p_out.messages = <<Message(T1002), Message(T1002)>>

\* What the fetch does keep: it ends, within `limit` requests.
HistoryRequestsWithinLimit == HistoryFetched => Len(p_out.sent) <= p_in.limit


(***************************************************************************)
(* C27: thread parents                                                     *)
(***************************************************************************)
NormalizedMessage == p_fn = "normalize_message"

\* The message's reply count, its own timestamp and its thread timestamp,
\* which is its own when the message gives none.
GivenReplyCount == IF "reply_count" \in DOMAIN p_in THEN p_in["reply_count"] ELSE 0
OwnTs == IF "ts" \in DOMAIN p_in THEN p_in["ts"].s ELSE <<>>
ThreadTs ==
    IF "thread_ts" \in DOMAIN p_in /\ p_in["thread_ts"].s # <<>>
    THEN p_in["thread_ts"].s ELSE OwnTs

\* C27: normalize_message sets is_thread_parent exactly when the message's
\* reply_count is greater than 0 and its timestamp equals its thread
\* timestamp, an absent thread timestamp being the message's own.
C27_ThreadParentIffRepliesAndOwnThread ==
    NormalizedMessage =>
        /\ p_out.is_thread_parent <=> (GivenReplyCount > 0 /\ OwnTs = ThreadTs)
        /\ p_out.reply_count = GivenReplyCount
        /\ p_out.thread_ts = ThreadTs

\* C27 witness: reply_count 3 and thread_ts equal to ts: a parent.
C27_Witness ==
    /\ NormalizedMessage
    /\ GivenReplyCount = 3
    /\ "thread_ts" \in DOMAIN p_in
    /\ p_in["thread_ts"] = T1002
    /\ OwnTs = T1002.s
    /\ p_out.is_thread_parent

\* reply_count 0 with equal timestamps: no parent.
NoRepliesNoParent ==
    /\ NormalizedMessage
    /\ "reply_count" \in DOMAIN p_in
    /\ GivenReplyCount = 0
    /\ "thread_ts" \in DOMAIN p_in
    /\ p_in["thread_ts"].s = OwnTs
    /\ OwnTs # <<>>
    /\ ~p_out.is_thread_parent

\* A reply (its thread_ts is another message's ts) that has replies counted:
\* no parent.
ReplyNoParent ==
    /\ NormalizedMessage
    /\ GivenReplyCount = 3
    /\ OwnTs = T205.s
    /\ ThreadTs = T1002.s
    /\ ~p_out.is_thread_parent

\* No thread_ts and three replies: a parent.
AbsentThreadTsParent ==
    /\ NormalizedMessage
    /\ "thread_ts" \notin DOMAIN p_in
    /\ GivenReplyCount = 3
    /\ p_out.is_thread_parent

(***************************************************************************)
(* C28: the order of a history                                             *)
(***************************************************************************)
HistorySorted == p_fn = "history"

\* The timestamps fetched and the timestamps of the list produced.
TsFetched == [i \in 1..Len(p_in) |-> Get(p_in[i], "ts", TsNone)]
TsProduced == [i \in 1..Len(p_out) |-> p_out[i].ts]

AllDecimal == \A i \in 1..Len(TsFetched) : PyFloat(TsFetched[i]).ok

\* How often x occurs in the sequence s.
Occurrences(s, x) == Cardinality({i \in 1..Len(s) : s[i] = x})

\* C28: the list produced for a history holds the fetched messages ordered
\* by the numeric value of their decimal timestamps, ascending.
C28_HistoryInNumericOrder ==
    (HistorySorted /\ AllDecimal) =>
        /\ Len(p_out) = Len(p_in)
        /\ \A i \in 1..Len(p_in) :
              Occurrences(TsProduced, TsFetched[i].s) = Occurrences(TsFetched, TsFetched[i])
        /\ \A i, j \in 1..Len(p_out) :
              i < j => ~FloatGreater(PyFloat(TsStr(TsProduced[i])),
                                     PyFloat(TsStr(TsProduced[j])))

\* C28 witness: "100.2", "20.5", "100.1" come out as "20.5", "100.1", "100.2".
C28_Witness ==
    /\ HistorySorted
    /\ TsFetched = <<T1002, T205, T1001>>
    /\ TsProduced = <<T205.s, T1001.s, T1002.s>>

\* Timestamps of one value keep the order they were fetched in, and a
\* message without a timestamp comes first.
EqualTimestampsKeepOrder ==
    /\ HistorySorted
    /\ TsFetched = <<T10010, T1001, TsNone>>
    /\ TsProduced = <<<<>>, T10010.s, T1001.s>>

(***************************************************************************)
(* C29, C30: the text of a message                                         *)
(***************************************************************************)
TextExtracted == p_fn = "extract_message_text"

Contains(s, sub) == \E i \in 1..(Len(s) - Len(sub) + 1) : SubSeq(s, i, i + Len(sub) - 1) = sub
EndsWith(s, sub) == Len(s) >= Len(sub) /\ SubSeq(s, Len(s) - Len(sub) + 1, Len(s)) = sub

GivenText == IF "text" \in DOMAIN p_in /\ p_in["text"].t = "str" THEN p_in["text"].s ELSE <<>>
GivenBlocks == Get(p_in, "blocks", <<>>)
GivenFiles == Get(p_in, "files", <<>>)
FirstFileSize == IF GivenFiles[1].dict THEN Get(GivenFiles[1].d, "size", -1) ELSE -1

MoreFile == <<" ", "+", "1", " ", "m", "o", "r", "e", " ", "f", "i", "l", "e">>
MoreFiles == <<" ", "+", "2", " ", "m", "o", "r", "e", " ", "f", "i", "l", "e", "s">>

\* The message has attachments and neither text nor blocks.
AttachmentsOnly ==
    /\ TextExtracted
    /\ GivenText = <<>>
    /\ GivenBlocks = <<>>
    /\ GivenFiles # <<>>

\* C29: for a message with empty text and no blocks extract_message_text
\* gives the attachment line: it contains "2 MB" for one file of 2,097,152
\* bytes, ends with "+1 more file" for two files and says "files" only for
\* more than one further file.
C29_AttachmentLine ==
    AttachmentsOnly =>
        /\ p_out[1] = Paperclip
        /\ FirstFileSize = 2097152 => Contains(p_out, <<"2", " ", "M", "B">>)
        /\ Len(GivenFiles) = 2 => EndsWith(p_out, MoreFile)
        /\ Len(GivenFiles) = 3 => EndsWith(p_out, MoreFiles)
        /\ Len(GivenFiles) = 1 => EndsWith(p_out, <<")">>)

\* What the code gives: the size with one digit after the point below 10
\* units, and the suffixes as claimed.
AttachmentLineAsFormatted ==
    AttachmentsOnly =>
        /\ p_out[1] = Paperclip
        /\ FirstFileSize = 2097152 =>
              /\ Contains(p_out, <<" ", "2", ".", "0", " ", "M", "B", ")">>)
              /\ ~Contains(p_out, <<"2", " ", "M", "B">>)
        /\ FirstFileSize = 10485760 => Contains(p_out, <<" ", "1", "0", " ", "M", "B", ")">>)
        /\ FirstFileSize = 1280 => Contains(p_out, <<" ", "1", ".", "2", " ", "K", "B", ")">>)
        /\ FirstFileSize = 10239 => Contains(p_out, <<" ", "1", "0", ".", "0", " ", "K", "B", ")">>)
        /\ FirstFileSize = 1023 => Contains(p_out, <<" ", "1", "0", "2", "3", " ", "B", ")">>)
        /\ Len(GivenFiles) = 2 => EndsWith(p_out, MoreFile)
        /\ Len(GivenFiles) = 3 => EndsWith(p_out, MoreFiles)
        /\ Len(GivenFiles) = 1 => EndsWith(p_out, <<")">>)

\* One file of 2,097,152 bytes, no text, no blocks.
TwoMegabyteFile ==
    /\ AttachmentsOnly
    /\ Len(GivenFiles) = 1
    /\ FirstFileSize = 2097152

\* Two files, no text, no blocks: "+1 more file".
OneMoreFile ==
    /\ AttachmentsOnly
    /\ Len(GivenFiles) = 2
    /\ EndsWith(p_out, MoreFile)

\* The fragments of the blocks, joined, and the attachment line.
BlockBody == JoinWith(BlockTexts(GivenBlocks), <<NewLine>>)
AttachmentLine == format_file_fallback(GivenFiles)
After(body, line) == IF line = <<>> THEN body ELSE body \o <<NewLine>> \o line

\* C30 as claimed: the text if it is not empty, with the attachment line
\* after it when there is one; else the block fragments in order, alone;
\* else the attachment line; else nothing.
C30_TextThenBlocksThenAttachment ==
    TextExtracted =>
        p_out = IF GivenText # <<>> THEN After(GivenText, AttachmentLine)
                ELSE IF BlockBody # <<>> THEN BlockBody
                ELSE AttachmentLine

\* C30 as the code has it: a text counts when it has a character that is no
\* whitespace, and the attachment line follows the block fragments as it
\* follows the text.
C30_AttachmentLineAfterAnyBody ==
    TextExtracted =>
        p_out = IF Strip(GivenText) # <<>> THEN After(GivenText, AttachmentLine)
                ELSE IF BlockBody # <<>> THEN After(BlockBody, AttachmentLine)
                ELSE AttachmentLine

\* C30 witness: blocks and a file, no text: the fragments, then the line.
C30_Witness ==
    /\ TextExtracted
    /\ GivenText = <<>>
    /\ BlockBody = <<"b", NewLine, "f", " ", "g">>
    /\ AttachmentLine # <<>>
    /\ p_out = BlockBody \o <<NewLine>> \o AttachmentLine

\* A text, blocks and a file: the text and the line, no fragment.
TextBeforeBlocks ==
    /\ TextExtracted
    /\ GivenText = Hi
    /\ BlockBody # <<>>
    /\ AttachmentLine # <<>>
    /\ p_out = Hi \o <<NewLine>> \o AttachmentLine

\* A text of whitespace alone gives way to the blocks.
BlankTextSkipped ==
    /\ TextExtracted
    /\ GivenText = <<" ">>
    /\ BlockBody # <<>>
    /\ p_out = After(BlockBody, AttachmentLine)

\* Nothing to show: the empty string.
NoTextAtAll ==
    /\ TextExtracted
    /\ BlockBody = <<>>
    /\ AttachmentLine = <<>>
    /\ p_out = <<>>

(***************************************************************************)
(* SlackClient.api_url (client.py 37-54) on its own: an endpoint is a run  *)
(* of blanks, a run of slashes, a run of "api/" segments, a tail and a     *)
(* trailing run of blanks, or an absolute URL between blanks.              *)
(***************************************************************************)
MaxSlashes == 2
MaxApiSegments == 2

RECURSIVE Repeated(_, _)
Repeated(piece, n) == IF n = 0 THEN <<>> ELSE piece \o Repeated(piece, n - 1)

\* "", "m", "m/x", "chat.m" and "apis"
EndpointTails ==
    {<<>>, <<"m">>, <<"m", "/", "x">>, <<"c", "h", "a", "t", ".", "m">>,
     <<"a", "p", "i", "s">>}

\* "http://x/m", "https://w.slack.com/api/m", "https://x//api/m", "http://"
AbsoluteUrls ==
    {HttpPrefix \o <<"x", "/", "m">>,
     api_base \o <<"/", "m">>,
     HttpsPrefix \o <<"x", "/", "/", "a", "p", "i", "/", "m">>,
     HttpPrefix}

Blanks == {<<>>, <<" ">>}

RelativeEndpoint(lead, slashes, segments, tail, trail) ==
    [text |-> lead \o Repeated(<<"/">>, slashes) \o Repeated(ApiSegment, segments)
              \o tail \o trail,
     absolute |-> FALSE, slashes |-> slashes, segments |-> segments, tail |-> tail]

AbsoluteEndpoint(lead, url, trail) ==
    [text |-> lead \o url \o trail,
     absolute |-> TRUE, slashes |-> 0, segments |-> 0, tail |-> url]

EndpointInputs ==
    {RelativeEndpoint(lead, slashes, segments, tail, trail) :
        lead \in Blanks, slashes \in 0..MaxSlashes, segments \in 0..MaxApiSegments,
        tail \in EndpointTails, trail \in Blanks}
    \cup {AbsoluteEndpoint(lead, url, trail) :
            lead \in Blanks, url \in AbsoluteUrls, trail \in Blanks}

\* url = client.api_url(endpoint); client.api_url(url)
ApiUrl ==
    /\ p_fn = "none"
    /\ \E e \in EndpointInputs :
         /\ p_fn' = "api_url"
         /\ p_in' = e
         /\ \E once \in {api_url(e.text)} :
              p_out' = [once |-> once,
                        twice |-> IF once.ok THEN api_url(once.url) ELSE once]
    /\ UNCHANGED <<tvars, svars, cvars, appvars>>

SpecApiUrl == Init /\ [][ApiUrl]_vars

UrlResolved == p_fn = "api_url"

UrlOf(text) == [ok |-> TRUE, url |-> text]

EndpointEmpty == [ok |-> FALSE, url |-> <<>>]

\* What is left of a relative endpoint once its blanks, its leading slashes
\* and one leading "api/" segment are gone.
EndpointRest ==
    Repeated(ApiSegment, Max(p_in.segments - 1, 0)) \o p_in.tail

\* "m", "/m", "api/m" and "/api/m"
SameMethodSpellings ==
    {<<"m">>, <<"/", "m">>, ApiSegment \o <<"m">>, <<"/">> \o ApiSegment \o <<"m">>}

\* C31: api_url returns an absolute http(s) URL as it is, resolves any other
\* endpoint that is not empty against the API base once the leading slashes
\* and one leading "api/" segment are gone, and raises when nothing is left;
\* so applying it to its own result changes nothing, and "m", "/m", "api/m"
\* and "/api/m" all give the same URL.
C31_ApiUrlNormalForm ==
    UrlResolved =>
        /\ p_in.absolute => p_out.once = UrlOf(p_in.tail)
        /\ (~p_in.absolute /\ EndpointRest # <<>>)
              => p_out.once = UrlOf(api_base \o <<"/">> \o EndpointRest)
        /\ (~p_in.absolute /\ EndpointRest = <<>>) => p_out.once = EndpointEmpty
        /\ p_out.twice = p_out.once
        /\ \A e \in SameMethodSpellings :
              api_url(e) = UrlOf(api_base \o <<"/", "m">>)

\* "/api/m" between blanks became https://w.slack.com/api/m, and stayed so.
C31_Witness ==
    /\ UrlResolved
    /\ p_in.text = <<" ", "/">> \o ApiSegment \o <<"m", " ">>
    /\ p_out.once = UrlOf(api_base \o <<"/", "m">>)
    /\ p_out.twice = p_out.once

\* Only one "api/" segment goes: "api/api/m" is the method "api/m".
SecondApiSegmentKept ==
    /\ UrlResolved
    /\ p_in.text = ApiSegment \o ApiSegment \o <<"m">>
    /\ p_out.once = UrlOf(api_base \o <<"/">> \o ApiSegment \o <<"m">>)

\* "/api/" has nothing left: SlackCLIError.
NothingLeftRaises ==
    /\ UrlResolved
    /\ p_in.text = <<"/">> \o ApiSegment
    /\ p_out.once = EndpointEmpty

(***************************************************************************)
(* The linear backoff of call / call_raw (client.py 61-78, 121-138).       *)
(***************************************************************************)
Ended == pc = "done" /\ Len(responses) >= 1

NetworkFailed(i) == responses[i].t = "neterr"

ServerFailed(i) == responses[i].t = "resp" /\ responses[i].status >= 500

AllOf(Failed(_)) ==
    Len(responses) = max_retries + 1 /\ \A i \in 1..Len(responses) : Failed(i)

TotalSlept == clock

\* C32: the wait before retry k (k = 1, 2) is 0.4 x k seconds after a
\* network failure and 0.5 x k seconds after a 5xx response, the final
\* attempt is followed by no wait, and so three network failures sleep 1.2
\* seconds in all and three 5xx responses 1.5 seconds.
C32_LinearBackoff ==
    /\ Len(sleeps) <= max_retries
    /\ \A k \in 1..Len(sleeps) :
          /\ NetworkFailed(k) => sleeps[k] = 4 * k
          /\ ServerFailed(k) => sleeps[k] = 5 * k
    /\ Ended => Len(sleeps) = Len(responses) - 1
    /\ (Ended /\ AllOf(NetworkFailed)) => TotalSlept = 12
    /\ (Ended /\ AllOf(ServerFailed)) => TotalSlept = 15

\* Three network failures: 0.4 s, 0.8 s, then the error.
C32_Witness ==
    /\ Ended
    /\ AllOf(NetworkFailed)
    /\ sleeps = <<4, 8>>
    /\ result.kind = "raise"

\* Three 5xx responses through call_raw: 0.5 s, 1.0 s, then the body.
ServerBackoffThrice ==
    /\ Ended
    /\ fn = "call_raw"
    /\ AllOf(ServerFailed)
    /\ sleeps = <<5, 10>>

\* The multiplier is the retry's index, whatever came before it.
SecondRetryAfterRateLimit ==
    /\ Len(sleeps) = 2
    /\ responses[1].status = 429
    /\ NetworkFailed(2)
    /\ sleeps[2] = 8

(***************************************************************************)
(* The statements after the attempt loop of call (client.py 98-100).       *)
(***************************************************************************)
CallEnded == fn = "call" /\ pc = "done"

AfterLoopMessages == {"last_error", "request_failed"}

\* C33: every invocation of call ends inside its attempt loop, by returning
\* the parsed payload or by raising; the statements after the loop never run.
C33_AfterLoopUnreachable ==
    CallEnded =>
        /\ result.kind \in {"return", "raise"}
        /\ result.msg \notin AfterLoopMessages
        /\ Len(responses) \in 1..(max_retries + 1)
        /\ Len(responses) = attempt + 1

\* Two retried failures, then the third attempt returns its payload from
\* inside the loop.
C33_Witness ==
    /\ CallEnded
    /\ attempt = max_retries
    /\ NetworkFailed(1)
    /\ ServerFailed(2)
    /\ result.kind = "return"

\* The last attempt fails on the network: raised inside the except clause.
LastAttemptRaisesInside ==
    /\ CallEnded
    /\ attempt = max_retries
    /\ NetworkFailed(max_retries + 1)
    /\ result.msg = "network"

(***************************************************************************)
(* The errors run() handles (app.py 97-110): SlackCLIError and the classes *)
(* errors.py derives from it.                                              *)
(***************************************************************************)
HandledAtBoundary ==
    {"SlackCLIError", "ConfigError", "SlackApiError", "NotFoundError",
     "AmbiguousTargetError"}

CallFailed == CallEnded /\ result.kind = "raise"

\* C34: every failure of call is SlackCLIError or one of its subclasses,
\* whatever the response: a 429 whose Retry-After is no integer and a 2xx
\* whose JSON body is no object included.
C34_CallFailuresAreHandled ==
    CallFailed => result.exc \in HandledAtBoundary

\* int("soon") on the Retry-After header of a 429: ValueError leaves call.
RetryAfterNotAnInteger ==
    /\ CallFailed
    /\ responses[Len(responses)].status = 429
    /\ ~PyInt(RetryAfterHeader(responses[Len(responses)])).ok
    /\ result.exc = "ValueError"

\* data.get on a JSON list: AttributeError leaves call.
JsonBodyNotAnObject ==
    /\ CallFailed
    /\ responses[Len(responses)].status = 200
    /\ responses[Len(responses)].body.json = "list"
    /\ result.exc = "AttributeError"

\* Every other failure of call is a handled one.
OtherCallFailuresAreHandled ==
    (CallFailed /\ ~RetryAfterNotAnInteger /\ ~JsonBodyNotAnObject)
        => result.exc \in {"SlackCLIError", "SlackApiError"}

(***************************************************************************)
(* A users.list scan that fails (client.py 181-193, 146-173).              *)
(***************************************************************************)
LastUsersScan == users_scans[Len(users_scans)]

LastUsersScanFailed == users_scans # <<>> /\ ~LastUsersScan.ok

\* The operation just run reads the directory: users_all, users_map without
\* its own cache, resolve_user_id on a name.
DirectoryAsked ==
    \/ r_fn = "users_all"
    \/ r_fn = "users_map" /\ r_before.users_map.none
    \/ /\ r_fn = "resolve_user_id"
       /\ ~USER_ID_RE(Strip(r_target))
       /\ Strip(Lower(RemovePrefix(Strip(r_target), <<"@">>))) # <<>>

\* C35: a users_all scan that fails on any page leaves the user-directory
\* cache and the id-keyed cache empty, and the next users_all, users_map or
\* resolve_user_id scans again, from the first page.
C35_FailedScanCachesNothing ==
    /\ LastUsersScanFailed => (users_cache.none /\ users_map_cache.none)
    /\ (DirectoryAsked /\ r_before.users.none) =>
          /\ RequestsMade # <<>>
          /\ RequestsMade[1].fn = "users.list"
          /\ RequestsMade[1].cursor = ""
          /\ users_scans # <<>>
          /\ LastUsersScan.ok => users_cache = [none |-> FALSE, d |-> LastUsersScan.users]

\* A scan failed; the next operation found no directory cached, scanned
\* again from the first page, went on to the second and cached both.
C35_Witness ==
    /\ Len(users_scans) = 2
    /\ ~users_scans[1].ok
    /\ users_scans[2].ok
    /\ r_before.users.none
    /\ DirectoryAsked
    /\ Len(RequestsMade) = 2
    /\ RequestsMade[1].cursor = ""
    /\ RequestsMade[2].cursor = "1"
    /\ users_cache = [none |-> FALSE, d |-> users_scans[2].users]
    /\ Len(users_cache.d) > UsersPerPage

\* A failure on the second page, met by users_map: both caches stay None.
UsersMapFailsLater ==
    /\ r_fn = "users_map"
    /\ LastUsersScanFailed
    /\ Len(RequestsMade) = 2
    /\ users_cache.none
    /\ users_map_cache.none

(***************************************************************************)
(* The requests of conversation_history (client.py 375-410), against the   *)
(* pages the server answered with.                                         *)
(***************************************************************************)
\* How many messages the first n pages of the server held.
RECURSIVE CollectedAfter(_)
CollectedAfter(n) ==
    IF n = 0 THEN 0 ELSE CollectedAfter(n - 1) + Len(p_in.resps[n].messages)

\* C36: for every limit >= 1 and every server, conversation_history ends
\* after at most `limit` page requests, asks each page for min(200, limit
\* minus the messages collected so far) items, and returns at most `limit`
\* messages.
C36_HistoryBounded ==
    HistoryFetched =>
        /\ p_out.kind \in {"return", "raise"}
        /\ Len(p_out.sent) <= p_in.limit
        /\ \A i \in 1..Len(p_out.sent) :
              p_out.sent[i].limit = Min(200, p_in.limit - CollectedAfter(i - 1))
        /\ Len(p_out.messages) <= p_in.limit

\* A server that sends two messages whatever it is asked for: limit 3 asks
\* for 3, then for 1, gets 4 messages and returns 3.
C36_Witness ==
    /\ HistoryFetched
    /\ p_in.limit = 3
    /\ Len(p_out.sent) = 2
    /\ p_out.sent[2].limit = 1
    /\ Len(p_in.resps) >= 2
    /\ CollectedAfter(2) = 4
    /\ Len(p_out.messages) = 3

\* Limit 201: the first page is asked for 200, the next for 199.
BatchCapped ==
    /\ HistoryFetched
    /\ p_in.limit = HistoryBatch + 1
    /\ Len(p_out.sent) >= 2
    /\ p_out.sent[1].limit = HistoryBatch
    /\ p_out.sent[2].limit = HistoryBatch - 1

\* As many requests as the limit: one message a page.
OneRequestPerMessage ==
    /\ HistoryFetched
    /\ p_in.limit = 3
    /\ Len(p_out.sent) = 3
    /\ p_out.kind = "return"

(***************************************************************************)
(* Where the IDs resolve_conversation_id returns come from (resolve.py     *)
(* 16-59, 106-121).                                                        *)
(***************************************************************************)
ConversationResolved ==
    r_fn = "resolve_conversation_id" /\ r_pc = "done" /\ r_result.kind = "return"

\* The trimmed target, when it has the shape of a conversation ID.
TargetItself ==
    /\ CanonicalConversationId(Strip(r_target))
    /\ r_result.id = Join(Strip(r_target))

\* The id of a conversation on a page served to this resolution.
ServedIn(listing) ==
    \E p \in 1..Len(listing) : \E i \in 1..Len(listing[p]) :
        listing[p][i].id = r_result.id

\* C37: every ID resolve_conversation_id returns is the trimmed target itself
\* when that has the shape of a conversation ID, or the id of a conversation
\* the server returned in a list response during the resolution.
C37_ReturnedIdTargetOrServed ==
    ConversationResolved => (TargetItself \/ ServedIn(r_listing) \/ ServedIn(r_dms))

\* "Dave": no channel of that name, so resolve_dm_id is handed the target and
\* returns it, as it starts with "D".
FallbackReturnsTarget ==
    /\ ConversationResolved
    /\ r_target = <<"D", "a", "v", "e">>
    /\ r_via = "fallback"
    /\ r_result.id = "Dave"
    /\ ~ServedIn(r_listing)
    /\ r_dms = <<>>

\* What the code keeps: the trimmed target is returned when it starts with
\* "D" and no channel has its name; every other ID was served.
ReturnedIdLeadingDOrServed ==
    ConversationResolved =>
        \/ TargetItself
        \/ ServedIn(r_listing)
        \/ ServedIn(r_dms)
        \/ /\ r_via = "fallback"
           /\ StartsWith(Strip(r_target), <<"D">>)
           /\ r_result.id = Join(Strip(r_target))

\* "#Dev" resolved to the channel served on a page of the scan.
ChannelIdServed ==
    /\ ConversationResolved
    /\ r_target = <<"#", "D", "e", "v">>
    /\ ServedIn(r_listing)
    /\ ~TargetItself

\* "@Ann" resolved to the DM conversation served on a page of the DM scan.
DmIdServed ==
    /\ ConversationResolved
    /\ r_via = "at"
    /\ ServedIn(r_dms)

(***************************************************************************)
(* Deleted users and users matching on several fields (resolve.py 73-103). *)
(***************************************************************************)
Matches(u) ==
    TargetHandle \in {Lower(u.name), Lower(u.display_name), Lower(u.real_name)}

\* The places of the directory holding a user that is not deleted and
\* matches the target by handle, display name or real name.
LiveMatches ==
    {i \in 1..Len(users_cache.d) : ~users_cache.d[i].deleted /\ Matches(users_cache.d[i])}

DeletedIds ==
    {users_cache.d[i].id : i \in {j \in 1..Len(users_cache.d) : users_cache.d[j].deleted}}

\* C38: resolve_user_id never selects a deleted user: a deleted user is never
\* returned and never counted toward ambiguity, and a user who matches on
\* several of handle, display name and real name counts as one match.
C38_DeletedUsersNeverSelected ==
    (UserLookupDone /\ TargetHandle # <<>>) =>
        /\ r_result.kind = "return" => r_result.id \notin DeletedIds
        /\ \A k \in 1..Len(r_result.candidates) : r_result.candidates[k] \notin DeletedIds
        /\ \A k, l \in 1..Len(r_result.candidates) :
              r_result.candidates[k] = r_result.candidates[l] => k = l
        /\ Cardinality(LiveMatches) = 1 =>
              \E i \in LiveMatches : r_result = RReturn(users_cache.d[i].id)
        /\ r_result.exc = "AmbiguousTargetError" <=> Cardinality(LiveMatches) >= 2
        /\ Cardinality(LiveMatches) = 0 => r_result.exc = "NotFoundError"

\* "@Ann" against a deleted "ann" and one live "ann": the live one is
\* returned, and the target is not ambiguous.
C38_Witness ==
    /\ UserLookupDone
    /\ r_target = <<"@", "A", "n", "n">>
    /\ Len(users_cache.d) = 2
    /\ users_cache.d[1].deleted
    /\ Matches(users_cache.d[1])
    /\ r_result = RReturn("U2")

\* One user is "ann" by handle, display name and real name: one match.
SeveralFieldsOneMatch ==
    /\ UserLookupDone
    /\ TargetHandle = Ann
    /\ Len(users_cache.d) = 1
    /\ Lower(users_cache.d[1].name) = Ann
    /\ Lower(users_cache.d[1].display_name) = Ann
    /\ Lower(users_cache.d[1].real_name) = Ann
    /\ r_result = RReturn("U1")

\* The only "ann" is deleted: not found.
OnlyDeletedMatch ==
    /\ UserLookupDone
    /\ TargetHandle = Ann
    /\ users_cache.d # <<>>
    /\ \A i \in 1..Len(users_cache.d) : Matches(users_cache.d[i])
    /\ LiveMatches = {}
    /\ r_result.exc = "NotFoundError"

====
